---- MODULE Spec2Model ----
(***************************************************************************)
(* Verification model of the dragon add-on scripts:                        *)
(*   - checkSolidBlockBelow / isSolidBlock        (ground contact scan)    *)
(*   - detectSolidBlockTransition                 (landed / took-off edge) *)
(*   - detectYawRotation                          (left / right / none)    *)
(*   - dragonMeleeAttack                          (attack cone)            *)
(*   - DragonFlightSystem.processTamedFlight      (flight controller)      *)
(* Each component has its own specification over the shared variables.     *)
(***************************************************************************)
EXTENDS Integers, Sequences, FiniteSets, TLC

VARIABLES
    scan,             \* result of the last direct checkSolidBlockBelow call
    solidBlockStates, \* Map: actor key -> hadSolidBlockBefore
    transition,       \* result of the last detectSolidBlockTransition call
    lastCall,         \* per actor: the result of its previous call (history)
    riderTick,        \* the last run of the dragonRiderTick handler
    rotationStates,   \* Map: dragon id -> previous view direction <<x, z>>
    leftRight,        \* per dragon: the entity property re_dra:left_right
    yawResult,        \* result of the last detectYawRotation call
    melee,            \* one dragonMeleeAttack call: its inputs and its result
    flight,           \* the flight system of one dragon, its rider and host
    music,            \* the ambient-music part of the flight system
    landing,          \* history: ground ticks of the flight in progress
    fov,              \* the rider's field-of-view value kept by handleFov
    velocity,         \* one speed-limit step of continueFlying: input, result
    ranged,           \* the ranged attack of the flight system and its timers
    tame              \* ownership of one dragon and the interaction with it

groundVars == <<solidBlockStates, transition, lastCall, riderTick>>
yawVars == <<rotationStates, leftRight, yawResult>>
extraVars == <<landing, fov, velocity, ranged, tame>>

vars == <<scan, groundVars, yawVars, melee, flight, music, extraVars>>

(***************************************************************************)
(* Bounds of the model.                                                    *)
(***************************************************************************)
\* deepest offset of a block column that a call may be given
MaxDepth == 3

\* longest list of nearby entities that dimension.getEntities may return
MaxNearby == 2

\* the last game tick (Main.currentTick) a behaviour reaches
MaxTick == 23

\* flyingTime at which the model stops following a flight
MaxFlyingTime == 12

\* most consecutive ticks on the ground, of jump held, of hovering
MaxGround == 3
MaxJump == 1
MaxHover == 2

\* milestone.maxStamina when it is a number
MaxStamina == 2

\* the actors (players / dragons) whose keys index the per-actor maps
Actors == {"a1", "a2"}

(***************************************************************************)
(* Ground contact scan: isSolidBlock, checkSolidBlockBelow.                *)
(***************************************************************************)
\* Value of JavaScript Infinity in the distance field (larger than any depth)
Infinity == 1000000

\* the list nonSolidBlocks of isSolidBlock
nonSolidBlocks ==
    { "minecraft:air", "minecraft:water", "minecraft:flowing_water",
      "minecraft:lava", "minecraft:flowing_lava", "minecraft:barrier",
      "minecraft:light_block", "minecraft:light_block_0",
      "minecraft:light_block_1", "minecraft:light_block_2",
      "minecraft:light_block_3", "minecraft:light_block_4",
      "minecraft:light_block_5", "minecraft:light_block_6",
      "minecraft:light_block_7", "minecraft:light_block_8",
      "minecraft:light_block_9", "minecraft:light_block_10",
      "minecraft:light_block_11", "minecraft:light_block_12",
      "minecraft:light_block_13", "minecraft:light_block_14",
      "minecraft:light_block_15", "minecraft:tall_grass",
      "minecraft:short_grass", "minecraft:fern", "minecraft:large_fern",
      "minecraft:seagrass", "minecraft:kelp", "minecraft:torch",
      "minecraft:soul_torch", "minecraft:redstone_torch", "minecraft:fire",
      "minecraft:soul_fire", "minecraft:snow", "minecraft:rail",
      "minecraft:golden_rail", "minecraft:detector_rail",
      "minecraft:activator_rail", "minecraft:powered_rail",
      "minecraft:lever", "minecraft:redstone_wire", "minecraft:tripwire",
      "minecraft:tripwire_hook", "minecraft:stone_pressure_plate",
      "minecraft:wooden_pressure_plate",
      "minecraft:light_weighted_pressure_plate",
      "minecraft:heavy_weighted_pressure_plate",
      "minecraft:crimson_pressure_plate", "minecraft:warped_pressure_plate",
      "minecraft:acacia_pressure_plate", "minecraft:birch_pressure_plate",
      "minecraft:dark_oak_pressure_plate", "minecraft:jungle_pressure_plate",
      "minecraft:oak_pressure_plate", "minecraft:spruce_pressure_plate",
      "minecraft:mangrove_pressure_plate", "minecraft:bamboo_pressure_plate",
      "minecraft:cherry_pressure_plate" }

\* What dimension.getBlock can do at one location: throw (outside the world
\* bounds), return undefined ("null": unloaded chunk), or return a block,
\* given here by its typeId.
BlockTypes == {"minecraft:air", "minecraft:snow", "minecraft:stone"}
Lookups == {"throw", "null"} \cup BlockTypes

\* A column of lookups below an actor: index i is the lookup at offset y = -i.
Columns == [0..MaxDepth -> Lookups]

\* mutant: the non-solid list forgets the vegetation / snow / rail entries
isSolidBlock_ShortList(block) ==
    IF block = "null" THEN FALSE
    ELSE IF block \in {"minecraft:air", "minecraft:water", "minecraft:lava"}
         THEN FALSE
         ELSE TRUE

\* isSolidBlock(block): block is "null" or a typeId
isSolidBlock(block) ==
    IF block = "null" THEN FALSE
    ELSE IF block \in nonSolidBlocks THEN FALSE
         ELSE TRUE

NotFound(probed) ==
    [hasSolidBlockBelow |-> FALSE, block |-> "null", distance |-> Infinity,
     probed |-> probed]

Abs(n) == IF n < 0 THEN -n ELSE n

\* The for loop of checkSolidBlockBelow from offset y down to -maxDistance.
\* probed collects the offsets at which getBlock was called.
RECURSIVE ScanLoop(_, _, _, _)
ScanLoop(column, y, maxDistance, probed) ==
    IF ~(y >= -maxDistance) THEN NotFound(probed)
    ELSE LET block == column[-y] IN
         IF block = "throw"
         THEN \* catch (blockError) { continue; }
              ScanLoop(column, y - 1, maxDistance, probed \cup {y})
         ELSE IF block # "null" /\ isSolidBlock(block)
              THEN [hasSolidBlockBelow |-> TRUE, block |-> block,
                    distance |-> Abs(y), probed |-> probed \cup {y}]
              ELSE ScanLoop(column, y - 1, maxDistance, probed \cup {y})

\* mutant: the try is around the loop, so a throwing lookup ends the scan
RECURSIVE ScanLoop_AbortOnThrow(_, _, _, _)
ScanLoop_AbortOnThrow(column, y, maxDistance, probed) ==
    IF ~(y >= -maxDistance) THEN NotFound(probed)
    ELSE LET block == column[-y] IN
         IF block = "throw"
         THEN NotFound(probed \cup {y})
         ELSE IF block # "null" /\ isSolidBlock(block)
              THEN [hasSolidBlockBelow |-> TRUE, block |-> block,
                    distance |-> Abs(y), probed |-> probed \cup {y}]
              ELSE ScanLoop_AbortOnThrow(column, y - 1, maxDistance,
                                         probed \cup {y})

checkSolidBlockBelow_AbortOnThrow(entityOk, column, maxDistance) ==
    IF ~entityOk THEN NotFound({})
    ELSE ScanLoop_AbortOnThrow(column, 0, maxDistance, {})

\* checkSolidBlockBelow(player, maxDistance). entityOk: reading
\* player.location and player.dimension does not throw (outer try).
checkSolidBlockBelow(entityOk, column, maxDistance) ==
    IF ~entityOk THEN NotFound({})
    ELSE ScanLoop(column, 0, maxDistance, {})

\* The scan variable before the call: the inputs drawn, no result yet.
ScanInput(entityOk, column, maxDistance) ==
    [called |-> FALSE, entityOk |-> entityOk, column |-> column,
     maxDistance |-> maxDistance, result |-> NotFound({})]

NoScan == ScanInput(TRUE, [i \in 0..MaxDepth |-> "null"], 0)

\* A direct call of the exported checkSolidBlockBelow on the drawn inputs.
CheckSolidBlockBelow ==
    /\ ~scan.called
    /\ scan' = [scan EXCEPT !.called = TRUE,
                            !.result = checkSolidBlockBelow(scan.entityOk,
                                           scan.column, scan.maxDistance)]
    /\ UNCHANGED <<groundVars, yawVars, extraVars, melee, flight, music>>

(***************************************************************************)
(* Transition tracker: detectSolidBlockTransition and its Map.             *)
(***************************************************************************)
\* Lookups drawn for the columns given to detectSolidBlockTransition.
GroundLookups == {"minecraft:air", "minecraft:stone"}
GroundColumns == [0..MaxDepth -> GroundLookups]

\* mutant: a new actor is taken to have been on the ground
previousState_DefaultTrue(states, key) ==
    IF key \in DOMAIN states THEN states[key] ELSE TRUE

\* playerStates.get(playerName) || { hadSolidBlockBefore: false }
previousState(states, key) ==
    IF key \in DOMAIN states THEN states[key] ELSE FALSE

\* mutant: an airborne actor is probed one block deeper than a grounded one
detectionRange_DeeperWhenAirborne(hadSolidBlockBefore) ==
    IF hadSolidBlockBefore THEN 2 ELSE 3

\* The detection range chosen from the previous state: both branches set 2.
detectionRange(hadSolidBlockBefore) ==
    IF hadSolidBlockBefore THEN 2 ELSE 2

\* "before" is the landing edge, "after" the take-off edge
transitionType(hadSolidBlockBefore, hasSolidBlockNow) ==
    IF ~hadSolidBlockBefore /\ hasSolidBlockNow THEN "before"
    ELSE IF hadSolidBlockBefore /\ ~hasSolidBlockNow THEN "after"
         ELSE "none"

\* The helper flags of the result: transitionType === "before" / "after" /
\* "none"; the catch block returns all three as false with the type "error".
isBeforeCondition(type) == type = "before"
isAfterCondition(type) == type = "after"
isStable(type) == type = "none"

\* mutant: the reading is written to every stored entry
setState_AllKeys(states, key, hasSolidBlockNow) ==
    [k \in DOMAIN states \cup {key} |-> hasSolidBlockNow]

\* mutant: the state is not written back
setState_Skip(states, key, hasSolidBlockNow) == states

\* playerStates.set(playerName, { hadSolidBlockBefore: hasSolidBlockNow })
setState(states, key, hasSolidBlockNow) ==
    [k \in DOMAIN states \cup {key} |->
        IF k = key THEN hasSolidBlockNow ELSE states[k]]

\* What the Map holds for a key, as a string (history only)
Stored(states, key) ==
    IF key \in DOMAIN states THEN (IF states[key] THEN "true" ELSE "false")
    ELSE "absent"

NoTransition ==
    [actor |-> "none", column |-> [i \in 0..MaxDepth |-> "throw"],
     storedBefore |-> "absent", transitionType |-> "none",
     hasSolidBlockNow |-> FALSE, hadSolidBlockBefore |-> FALSE,
     distance |-> Infinity, detectionRange |-> 0]

NoCall ==
    [type |-> "nocall", hasNow |-> FALSE,
     prevType |-> "nocall", prevHasNow |-> FALSE, prevEdge |-> "none"]

IsEdge(type) == type \in {"before", "after"}

\* The last edge reported up to and including the call recorded in c
LastEdge(c) == IF IsEdge(c.type) THEN c.type ELSE c.prevEdge

\* History: the call recorded for an actor, after one more call
Recorded(c, type, hasNow) ==
    [type |-> type, hasNow |-> hasNow,
     prevType |-> c.type, prevHasNow |-> c.hasNow, prevEdge |-> LastEdge(c)]

\* detectSolidBlockTransition(player). actorOk: reading player.name and
\* player.location does not throw; column: the lookups below the actor.
DetectSolidBlockTransition(actor, actorOk, column) ==
    IF ~actorOk
    THEN \* catch (error): the "error" result, the Map is not touched
         /\ transition' =
               [actor |-> actor, column |-> column,
                storedBefore |-> Stored(solidBlockStates, actor),
                transitionType |-> "error",
                hasSolidBlockNow |-> FALSE, hadSolidBlockBefore |-> FALSE,
                distance |-> Infinity, detectionRange |-> 0]
         /\ lastCall' = [lastCall EXCEPT
                            ![actor] = Recorded(lastCall[actor], "error", FALSE)]
         /\ UNCHANGED <<scan, solidBlockStates, riderTick, yawVars, extraVars, melee, flight, music>>
    ELSE LET hadSolidBlockBefore == previousState(solidBlockStates, actor)
             range == detectionRange(hadSolidBlockBefore)
             currentBlockData == checkSolidBlockBelow(TRUE, column, range)
             hasSolidBlockNow == currentBlockData.hasSolidBlockBelow
             type == transitionType(hadSolidBlockBefore, hasSolidBlockNow)
         IN  /\ solidBlockStates' =
                    setState(solidBlockStates, actor, hasSolidBlockNow)
             /\ transition' =
                    [actor |-> actor, column |-> column,
                     storedBefore |-> Stored(solidBlockStates, actor),
                     transitionType |-> type,
                     hasSolidBlockNow |-> hasSolidBlockNow,
                     hadSolidBlockBefore |-> hadSolidBlockBefore,
                     distance |-> currentBlockData.distance,
                     detectionRange |-> range]
             /\ lastCall' = [lastCall EXCEPT
                    ![actor] = Recorded(lastCall[actor], type, hasSolidBlockNow)]
             /\ UNCHANGED <<scan, riderTick, yawVars, extraVars, melee, flight, music>>

(***************************************************************************)
(* Sensor tick of the riders: dragonRiderTick.  One try/catch encloses the *)
(* whole handler, the loop over the riders included.                       *)
(***************************************************************************)
\* detectSolidBlockTransition(player) as a function of the Map: the new Map
\* and the result.  Its own catch returns the "error" result.
detectSolidBlockTransition(states, actor, actorOk, column) ==
    IF ~actorOk
    THEN [states |-> states, transitionType |-> "error",
          hasSolidBlockNow |-> FALSE]
    ELSE LET hadSolidBlockBefore == previousState(states, actor)
             range == detectionRange(hadSolidBlockBefore)
             currentBlockData == checkSolidBlockBelow(TRUE, column, range)
             hasSolidBlockNow == currentBlockData.hasSolidBlockBelow
         IN  [states |-> setState(states, actor, hasSolidBlockNow),
              transitionType |->
                  transitionType(hadSolidBlockBefore, hasSolidBlockNow),
              hasSolidBlockNow |-> hasSolidBlockNow]

\* The riders of one tick, in the order of world.getAllPlayers(); the empty
\* list also stands for detectDragonRiders having caught an error.
RiderLists ==
    {<<>>, <<"a1">>, <<"a2">>, <<"a1", "a2">>, <<"a2", "a1">>}

\* What the host gives for one rider in one tick.  actorOk: reading the
\* rider's name and location does not throw; column: the blocks below;
\* actionBarOk: rider.onScreenDisplay.setActionBar does not throw.
RiderColumns == {[i \in 0..MaxDepth |-> b] : b \in GroundLookups}
RiderInputs ==
    [Actors -> [actorOk : BOOLEAN, column : RiderColumns,
                actionBarOk : BOOLEAN]]

\* The message the loop body shows for a result
actionBarMessage(type) ==
    IF type = "before" THEN "Landed on ground"
    ELSE IF type = "after" THEN "Left on ground"
         ELSE "none"

\* One iteration of the loop.  A throw of setActionBar leaves the loop: the
\* next statement run is the handler's catch block.
RiderLoopBody(acc, rider, in) ==
    LET transitionData ==
            detectSolidBlockTransition(acc.states, rider, in.actorOk, in.column)
        message == actionBarMessage(transitionData.transitionType)
        throws == message # "none" /\ ~in.actionBarOk
    IN  [states |-> transitionData.states,
         detected |-> acc.detected \cup {rider},
         completed |-> IF throws THEN acc.completed
                       ELSE acc.completed \cup {rider},
         actionBar |-> IF message # "none" /\ ~throws
                       THEN [acc.actionBar EXCEPT ![rider] = message]
                       ELSE acc.actionBar,
         thrower |-> IF throws THEN rider ELSE "none"]

\* for (const rider of dragonRiders), from index i
RECURSIVE RiderLoop(_, _, _, _)
RiderLoop(acc, riders, inputs, i) ==
    IF i > Len(riders) \/ acc.thrower # "none" THEN acc
    ELSE RiderLoop(RiderLoopBody(acc, riders[i], inputs[riders[i]]),
                   riders, inputs, i + 1)

\* dragonRiderTick(): the result of one run.  escaped: an exception left the
\* handler; the catch block swallows whatever the loop throws.
dragonRiderTick(states, riders, inputs) ==
    LET start == [states |-> states, detected |-> {}, completed |-> {},
                  actionBar |-> [a \in Actors |-> "none"],
                  thrower |-> "none"]
        end == IF Len(riders) = 0 THEN start
               ELSE RiderLoop(start, riders, inputs, 1)
    IN  [ran |-> TRUE, riders |-> riders, states |-> end.states,
         detected |-> end.detected, completed |-> end.completed,
         actionBar |-> end.actionBar, thrower |-> end.thrower,
         escaped |-> FALSE]

NoRiderTick ==
    [ran |-> FALSE, riders |-> <<>>, states |-> [a \in {} |-> FALSE],
     detected |-> {}, completed |-> {},
     actionBar |-> [a \in Actors |-> "none"], thrower |-> "none",
     escaped |-> FALSE]

\* One run of the handler scheduled by initializeDragonSystem
DragonRiderTick ==
    \E riders \in RiderLists, inputs \in RiderInputs :
        LET result == dragonRiderTick(solidBlockStates, riders, inputs)
        IN  /\ riderTick' = result
            /\ solidBlockStates' = result.states
            /\ UNCHANGED <<scan, transition, lastCall, yawVars, extraVars, melee, flight, music>>

(***************************************************************************)
(* Yaw rotation tracker: calculateYawFromDirection, detectYawRotation.     *)
(* Angles are integers in thousandths of a degree.                         *)
(***************************************************************************)
\* The horizontal view directions <<x, z>> given to the tracker. Math.atan2
\* depends on the direction only, so each is given by a short integer vector.
ViewDirections ==
    { <<0, 1>>, <<1, 58>>, <<1, 57>>, <<1, 0>>, <<0, -1>>, <<-1, -57>>,
      <<-1, 0>>, <<0, 0>> }

\* Math.atan2(x, z) * (180 / Math.PI), rounded to a thousandth of a degree
calculateYawFromDirection(x, z) ==
    CASE x = 0 /\ z = 1 -> 0
      [] x = 1 /\ z = 58 -> 988
      [] x = 1 /\ z = 57 -> 1005
      [] x = 1 /\ z = 0 -> 90000
      [] x = 0 /\ z = -1 -> 180000
      [] x = -1 /\ z = -57 -> -178995
      [] x = -1 /\ z = 0 -> -90000
      [] x = 0 /\ z = 0 -> 0

\* the constant threshold: 1.0 degree
threshold == 1000

\* mutant: the difference is not wrapped into -180..180
wrapYawDiff_NoWrap(yawDiff) == yawDiff

\* Handle wrapping around (e.g., from 179 to -179)
wrapYawDiff(yawDiff) ==
    IF yawDiff > 180000 THEN yawDiff - 360000
    ELSE IF yawDiff < -180000 THEN yawDiff + 360000
         ELSE yawDiff

\* mutant: any positive difference counts as a left turn
rotationDirection_NoThreshold(yawDiff) ==
    IF yawDiff > 0 THEN "left"
    ELSE IF yawDiff < 0 THEN "right"
         ELSE "none"

\* Positive yawDiff = turning left, negative = turning right
rotationDirection(yawDiff) ==
    IF yawDiff > threshold THEN "left"
    ELSE IF yawDiff < -threshold THEN "right"
         ELSE "none"

\* mutant: a dragon without a state starts from the facing (0, 0)
getOrCreateRotationState_DefaultZero(states, dragon, viewDirection) ==
    IF dragon \in DOMAIN states THEN states[dragon] ELSE <<0, 0>>

\* rotationStates.get(dragonId), or for a dragon without a state the new
\* state { previousViewX: viewDirection.x, previousViewZ: viewDirection.z }
getOrCreateRotationState(states, dragon, viewDirection) ==
    IF dragon \in DOMAIN states THEN states[dragon] ELSE viewDirection

NoYawResult ==
    [entity |-> "none", hadState |-> FALSE, storedBefore |-> <<0, 0>>,
     viewDirection |-> <<0, 0>>, currentYaw |-> 0, previousYaw |-> 0,
     yawDifference |-> 0, rotationDirection |-> "none"]

\* detectYawRotation(dragon). dragonOk: reading dragon.id and
\* dragon.getViewDirection() does not throw; propOk: dragon.setProperty does
\* not throw.
DetectYawRotation(dragon, dragonOk, viewDirection, propOk) ==
    LET hadState == dragon \in DOMAIN rotationStates
        storedBefore == IF hadState THEN rotationStates[dragon] ELSE <<0, 0>>
    IN
    IF ~dragonOk
    THEN \* catch (error): the "error" result
         /\ yawResult' =
               [entity |-> dragon, hadState |-> hadState,
                storedBefore |-> storedBefore,
                viewDirection |-> <<0, 0>>, currentYaw |-> 0,
                previousYaw |-> 0, yawDifference |-> 0,
                rotationDirection |-> "error"]
         /\ UNCHANGED <<rotationStates, leftRight>>
         /\ UNCHANGED <<scan, groundVars, extraVars, melee, flight, music>>
    ELSE LET currentYaw ==
                 calculateYawFromDirection(viewDirection[1], viewDirection[2])
             \* a dragon without a state gets one made of the current view
             rotationState ==
                 getOrCreateRotationState(rotationStates, dragon, viewDirection)
             previousYaw ==
                 calculateYawFromDirection(rotationState[1], rotationState[2])
             yawDiff == wrapYawDiff(currentYaw - previousYaw)
             direction == rotationDirection(yawDiff)
         IN  /\ leftRight' = IF propOk
                             THEN [leftRight EXCEPT ![dragon] = direction]
                             ELSE leftRight
             /\ rotationStates' =
                    [k \in DOMAIN rotationStates \cup {dragon} |->
                        IF k = dragon THEN viewDirection ELSE rotationStates[k]]
             /\ yawResult' =
                    [entity |-> dragon, hadState |-> hadState,
                     storedBefore |-> storedBefore,
                     viewDirection |-> viewDirection,
                     currentYaw |-> currentYaw, previousYaw |-> previousYaw,
                     yawDifference |-> yawDiff,
                     rotationDirection |-> direction]
             /\ UNCHANGED <<scan, groundVars, extraVars, melee, flight, music>>

(***************************************************************************)
(* Melee attack: dragonMeleeAttack.                                        *)
(* Locations are integer vectors in tenths of a block.  A view direction   *)
(* is a unit vector <<x, y, z>> / n given by integers with x^2+y^2+z^2 =   *)
(* n^2.  The comparisons on distance = Math.sqrt(...) are made on squares. *)
(***************************************************************************)
attackRange == 5

\* the amount passed to entity.applyDamage
meleeDamage == 4

\* dragon.id, and the id of the one player around
DragonId == "dragon0"
PlayerId == "player1"

\* ids of the other entities, by their index in the list
OtherIds == <<"e1", "e2", "e3", "e4">>

\* dragon.location
dragonLocation == <<10, 640, -20>>

\* level facing +Z; pitched up 53 degrees facing +Z; level, yawed 37 degrees
MeleeViewDirections ==
    { [x |-> 0, y |-> 0, z |-> 1, n |-> 1],
      [x |-> 0, y |-> 4, z |-> 3, n |-> 5],
      [x |-> 3, y |-> 0, z |-> 4, n |-> 5] }

\* offsets from the dragon: 3 in front, 3 behind, 0.3 / 6 / 5 / 0.5 in front,
\* 3 in front and 4 up (distance 5), 60.02 degrees off the +Z axis
MobOffsets ==
    { <<0, 0, 30>>, <<0, 0, -30>>, <<0, 0, 3>>, <<0, 0, 60>>, <<0, 0, 50>>,
      <<0, 0, 5>>, <<0, 40, 30>>, <<26, 0, 15>> }

\* what entity.applyDamage does: return true, return false, throw
DamageOutcomes == {"true", "false", "throw"}

Entity(kind, typeId, isValid, offset, damage) ==
    [kind |-> kind, typeId |-> typeId, isValid |-> isValid,
     location |-> <<dragonLocation[1] + offset[1],
                    dragonLocation[2] + offset[2],
                    dragonLocation[3] + offset[3]>>,
     damage |-> damage]

\* The entities dimension.getEntities may return around the dragon
NearbyEntities ==
    { Entity("mob", "minecraft:zombie", TRUE, o, d) :
          o \in MobOffsets, d \in DamageOutcomes }
    \cup { Entity("mob", "minecraft:zombie", FALSE, <<0, 0, 30>>, "true"),
           Entity("self", "re_dra:dragon", TRUE, <<0, 0, 0>>, "true"),
           Entity("player", "minecraft:player", TRUE, <<0, 0, 30>>, "true"),
           Entity("dragon", "re_dra:dragon", TRUE, <<0, 0, 30>>, "true"),
           Entity("dragon", "re_dra:dragon_baby", TRUE, <<0, 0, 30>>, "true") }

\* entity.id of the entity at index i of the list
EntityId(entity, i) ==
    IF entity.kind = "self" THEN DragonId
    ELSE IF entity.kind = "player" THEN PlayerId
         ELSE OtherIds[i]

\* toTarget.x^2 + toTarget.y^2 + toTarget.z^2: the square of distance
distanceSq(toTarget) ==
    toTarget[1] * toTarget[1] + toTarget[2] * toTarget[2]
        + toTarget[3] * toTarget[3]

\* mutant: an entity at exactly attackRange is too far
tooFar_Inclusive(dSq) == dSq >= (attackRange * 10) * (attackRange * 10)

\* distance > attackRange
tooFar(dSq) == dSq > (attackRange * 10) * (attackRange * 10)

\* distance < 0.5
tooClose(dSq) == dSq < 5 * 5

\* dotProduct > inFrontThreshold (0.5), where dotProduct =
\* viewDirection.x * normalizedTarget.x + viewDirection.z * normalizedTarget.z
\* and normalizedTarget = toTarget / distance:
\*   2 * (v.x * t.x + v.z * t.z) > v.n * distance
inAttackCone(v, toTarget, dSq) ==
    LET a == 2 * (v.x * toTarget[1] + v.z * toTarget[3])
    IN  a > 0 /\ a * a > v.n * v.n * dSq

\* mutant: the rider is not skipped
isRider_Never(rider, id) == FALSE

\* rider && entity.id === rider.id  ("none": no rider was passed)
isRider(rider, id) == rider # "none" /\ id = rider

\* The body of the for loop for the entity at index i; acc holds hitEntities,
\* the log of the damage applied so far and the targets of every applyDamage
\* call made so far.
ScanEntity(v, rider, entity, i, acc) ==
    LET id == EntityId(entity, i)
        toTarget == <<entity.location[1] - dragonLocation[1],
                      entity.location[2] - dragonLocation[2],
                      entity.location[3] - dragonLocation[3]>>
        dSq == distanceSq(toTarget)
    IN  IF ~entity.isValid THEN acc
        ELSE IF id = DragonId THEN acc
        ELSE IF isRider(rider, id) THEN acc
        ELSE IF entity.typeId = "re_dra:dragon"
                \/ entity.typeId = "re_dra:dragon_baby" THEN acc
        ELSE IF tooFar(dSq) THEN acc
        ELSE IF tooClose(dSq) THEN acc
        ELSE IF inAttackCone(v, toTarget, dSq)
             THEN IF entity.damage = "true"
                  THEN [hitEntities |-> Append(acc.hitEntities, id),
                        damageLog |-> Append(acc.damageLog,
                            [target |-> id, amount |-> meleeDamage,
                             cause |-> "entityAttack",
                             damagingEntity |-> DragonId]),
                        attempts |-> Append(acc.attempts, id)]
                  ELSE \* damage returned false, or threw and was caught
                       [acc EXCEPT !.attempts = Append(@, id)]
             ELSE acc

RECURSIVE ScanEntities(_, _, _, _, _)
ScanEntities(v, rider, nearbyEntities, i, acc) ==
    IF i > Len(nearbyEntities) THEN acc
    ELSE ScanEntities(v, rider, nearbyEntities, i + 1,
                      ScanEntity(v, rider, nearbyEntities[i], i, acc))

\* dragonMeleeAttack(dragon, rider): the returned object and the damage log.
\* messageOk: rider.sendMessage after the scan does not throw.
dragonMeleeAttack(dragonValid, v, rider, nearbyEntities, messageOk) ==
    IF ~dragonValid
    THEN [success |-> FALSE, hitCount |-> 0, hitEntities |-> <<>>,
          damageLog |-> <<>>, attempts |-> <<>>]
    ELSE LET acc == ScanEntities(v, rider, nearbyEntities, 1,
                        [hitEntities |-> <<>>, damageLog |-> <<>>,
                         attempts |-> <<>>])
         IN  IF rider # "none" /\ ~messageOk
             THEN \* outer catch (error)
                  [success |-> FALSE, hitCount |-> 0, hitEntities |-> <<>>,
                   damageLog |-> acc.damageLog, attempts |-> acc.attempts]
             ELSE [success |-> TRUE, hitCount |-> Len(acc.hitEntities),
                   hitEntities |-> acc.hitEntities,
                   damageLog |-> acc.damageLog, attempts |-> acc.attempts]

NoMeleeResult ==
    [success |-> FALSE, hitCount |-> 0, hitEntities |-> <<>>,
     damageLog |-> <<>>, attempts |-> <<>>]

MeleeInput(dragonValid, v, rider, nearbyEntities, messageOk) ==
    [done |-> FALSE, dragonValid |-> dragonValid, viewDirection |-> v,
     rider |-> rider, nearbyEntities |-> nearbyEntities,
     messageOk |-> messageOk, result |-> NoMeleeResult]

NoMelee ==
    MeleeInput(FALSE, [x |-> 0, y |-> 0, z |-> 1, n |-> 1], "none", <<>>, TRUE)

\* Lists of at most MaxNearby entities, the dragon and the player at most once
RECURSIVE SeqsUpTo(_, _)
SeqsUpTo(S, n) ==
    IF n = 0 THEN {<<>>}
    ELSE LET shorter == SeqsUpTo(S, n - 1)
         IN  shorter \cup { Append(q, e) : q \in shorter, e \in S }

NearbyLists ==
    { q \in SeqsUpTo(NearbyEntities, MaxNearby) :
        \A i, j \in 1..Len(q) :
            (i # j /\ q[i].kind = q[j].kind) => q[i].kind \in {"mob", "dragon"} }

\* One call of dragonMeleeAttack on the drawn inputs.
DragonMeleeAttack ==
    /\ ~melee.done
    /\ melee' = [melee EXCEPT
                    !.done = TRUE,
                    !.result = dragonMeleeAttack(melee.dragonValid,
                                   melee.viewDirection, melee.rider,
                                   melee.nearbyEntities, melee.messageOk)]
    /\ UNCHANGED <<scan, groundVars, yawVars, extraVars, flight, music>>

(***************************************************************************)
(* Flight controller: DragonFlightSystem (Flight.js).                      *)
(* One dragon and one player.  A JavaScript value is a record of its kind  *)
(* and, for a number, its value.  Velocity, field of view and projectiles  *)
(* are not part of this model.                                             *)
(***************************************************************************)
Num(n) == [kind |-> "number", value |-> n]

\* the string "infinite"
Infinite == [kind |-> "infinite", value |-> 0]

\* the string "infinite" followed by the digits of a number
Concatenated == [kind |-> "string", value |-> 0]

NotANumber == [kind |-> "NaN", value |-> 0]

\* milestone.maxStamina when it is not a number
NoMaximum == [kind |-> "undefined", value |-> 0]

\* comp.StaminaExhaustion: the stamina deltas per tick
StaminaExhaustion ==
    [groundedTick |-> 1, flightTick |-> -1, boostingTick |-> -1,
     hoveringTick |-> -2]

\* the JavaScript operator +: addition on numbers, concatenation on strings
plus(a, n) ==
    IF a.kind = "number" THEN Num(a.value + n)
    ELSE IF a.kind \in {"infinite", "string"} THEN Concatenated
    ELSE NotANumber

\* MathUtil.clamp(value, min, max) as Math.min(Math.max(value, min), max)
clamp(a, min, max) ==
    IF a.kind = "number"
    THEN Num(IF a.value < min THEN min
             ELSE IF a.value > max THEN max ELSE a.value)
    ELSE NotANumber

\* comp.isCurrentTickNth(n)
isCurrentTickNth(f, n) == f.currentTick % n = 0

\* the state of the flight system right after its constructor, for a world
\* where the dragon is tamed or not, the player rides it or not, and the
\* milestone has a finite maximum stamina or none
Constructed(tamed, player, maxStamina) ==
    [phase |-> "constructed", currentTick |-> 2, timeoutAt |-> 0,
     tamed |-> tamed, entityValid |-> TRUE, player |-> player,
     permissions |-> TRUE,
     maxStamina |-> maxStamina,
     stamina |-> IF maxStamina.kind = "number" THEN maxStamina ELSE Infinite,
     rider |-> "none", flyingTime |-> 0, hoveringTime |-> 0,
     onGroundTime |-> 0, jumpingTime |-> 0, isBoosting |-> FALSE,
     isBeingRidden |-> FALSE, musicPlaying |-> FALSE,
     is_flying |-> FALSE, flight_state |-> "grounded",
     is_boosting |-> FALSE, is_hovering |-> FALSE,
     slow_falling |-> FALSE, levitation |-> FALSE,
     last |-> [op |-> "none", flyingTime |-> 0, rider |-> "none",
               player |-> player, jumpPressed |-> FALSE,
               isOnGround |-> FALSE, riderStore |-> "untouched",
               movement |-> "other", impulse |-> {}, added |-> {},
               deltas |-> {}]]

\* getRider(): the player among the riders of the dragon
getRider(f) ==
    IF f.entityValid /\ f.player = "riding" THEN "player" ELSE "none"

\* init()
init(f) ==
    LET f1 == IF getRider(f) # "none" /\ f.onGroundTime = 0
              THEN [f EXCEPT !.is_flying = TRUE, !.flight_state = "flying",
                             !.isBeingRidden = TRUE]
              ELSE [f EXCEPT !.is_flying = FALSE,
                             !.flight_state = "grounded"]
        f2 == IF f1.tamed
              THEN [f1 EXCEPT !.rider = getRider(f1),
                              !.timeoutAt = f1.currentTick + 20]
              ELSE f1
    IN  [f2 EXCEPT !.phase = "running",
                   !.flyingTime = IF f2.rider # "none" THEN 1 ELSE @,
                   !.last.op = "init"]

\* toggleRiderMovementControls(toggle)
toggleRiderMovementControls(f, toggle) ==
    IF f.rider = "none" \/ f.player = "invalid" THEN f
    ELSE [f EXCEPT !.permissions = toggle]

\* mutant: endFlying leaves the slow_falling effect on the dragon
endFlying_KeepsSlowFalling(f) ==
    toggleRiderMovementControls(
        IF f.entityValid
        THEN [f EXCEPT !.flyingTime = 0, !.is_flying = FALSE,
                       !.is_boosting = FALSE, !.is_hovering = FALSE,
                       !.flight_state = "grounded", !.levitation = FALSE]
        ELSE [f EXCEPT !.flyingTime = 0],
        TRUE)

\* endFlying()
endFlying(f) ==
    toggleRiderMovementControls(
        IF f.entityValid
        THEN [f EXCEPT !.flyingTime = 0, !.is_flying = FALSE,
                       !.is_boosting = FALSE, !.is_hovering = FALSE,
                       !.flight_state = "grounded", !.levitation = FALSE,
                       !.slow_falling = FALSE]
        ELSE [f EXCEPT !.flyingTime = 0],
        TRUE)

\* disable()
disable(f) ==
    [f EXCEPT !.rider = "none", !.isBeingRidden = FALSE,
              !.musicPlaying = FALSE]

\* tryEndFlight()
tryEndFlight(f) ==
    IF f.flyingTime = 0 THEN f ELSE disable(endFlying(f))

\* startFlying()
startFlying(f) ==
    toggleRiderMovementControls(
        [f EXCEPT !.flyingTime = 1, !.is_flying = TRUE,
                  !.slow_falling = TRUE,
                  !.last.added = @ \cup {"slow_falling"}],
        FALSE)

\* startHovering()
startHovering(f) ==
    [f EXCEPT !.slow_falling = TRUE,
              !.last.added = @ \cup {"slow_falling"}]

\* endHovering()
endHovering(f) ==
    [f EXCEPT !.hoveringTime = 0, !.slow_falling = FALSE,
              !.levitation = FALSE]

\* hover()
hover(f) ==
    LET f1 == [f EXCEPT !.hoveringTime = @ + 1]
        f2 == IF f1.hoveringTime = 1 THEN startHovering(f1) ELSE f1
    IN  IF isCurrentTickNth(f2, 20)
        THEN [f2 EXCEPT !.levitation = TRUE,
                        !.last.added = @ \cup {"levitation"}]
        ELSE f2

\* the stamina block of continueFlying: the stamina it stores
flightStamina(f, isBoosting) ==
    IF f.maxStamina.kind = "number"
    THEN LET s1 == IF f.stamina.kind = "infinite" THEN f.maxStamina
                   ELSE f.stamina
             s2 == IF f.hoveringTime = 0
                   THEN plus(s1, StaminaExhaustion.flightTick) ELSE s1
             s3 == IF isBoosting
                   THEN plus(s2, StaminaExhaustion.boostingTick) ELSE s2
             s4 == IF f.hoveringTime # 0
                   THEN plus(s3, StaminaExhaustion.hoveringTick) ELSE s3
         IN  clamp(s4, 0, f.maxStamina.value)
    ELSE Infinite

\* the stamina block of continueFlying: the deltas of StaminaExhaustion it
\* adds (history)
flightDeltas(f, isBoosting) ==
    IF f.maxStamina.kind = "number"
    THEN (IF f.hoveringTime = 0 THEN {"flightTick"} ELSE {})
         \cup (IF isBoosting THEN {"boostingTick"} ELSE {})
         \cup (IF f.hoveringTime # 0 THEN {"hoveringTick"} ELSE {})
    ELSE {}

\* The movement vector of the rider's input in one tick: "forward" has
\* y == 1, "none" gives a transformedMovement of length below 0.1 (no input),
\* "other" is any other vector.  With y == 1 the transformed vector is not
\* zero, and it is normalized, so "forward" is never below 0.1.
Movements == {"none", "other", "forward"}

\* mutant: dive applies its impulse whatever the movement vector is
dive_WithoutForwardCheck(f, movement) ==
    [f EXCEPT !.last.impulse = @ \cup {"dive"}]

\* dive(isBoosting): the impulse is applied only with movementVector.y == 1
dive(f, movement) ==
    IF movement # "forward" THEN f
    ELSE [f EXCEPT !.last.impulse = @ \cup {"dive"}]

\* continueFlying(); movement: the rider's movement vector, of which
\* transformedMovement.length() < 0.1 holds for "none" only; diving:
\* viewDirection.y < -0.5
continueFlying(f, movement, diving) ==
    LET hasStamina == f.stamina.kind = "infinite"
                      \/ (f.stamina.kind = "number" /\ f.stamina.value > 0)
        isBoosting == f.jumpingTime # 0 /\ hasStamina /\ f.hoveringTime = 0
        f0 == [f EXCEPT !.stamina = flightStamina(f, isBoosting),
                        !.last.movement = movement,
                        !.last.deltas = @ \cup flightDeltas(f, isBoosting)]
        isHovering == movement = "none"
        f1 == IF ~isHovering
              THEN [(IF f0.hoveringTime # 0 THEN endHovering(f0) ELSE f0)
                       EXCEPT !.last.impulse = @ \cup {"steer"}]
              ELSE hover(f0)
        f2 == IF diving THEN dive(f1, movement) ELSE f1
    IN  [f2 EXCEPT !.is_boosting = isBoosting, !.is_hovering = isHovering,
                   !.flight_state = IF isHovering THEN "hovering"
                                    ELSE "flying",
                   !.isBoosting = isBoosting]

\* mutant: flight ends on the ground whatever the time flown
shouldEndFlying_AnyFlyingTime(flyingTime, onGroundTime) ==
    flyingTime # 0 /\ onGroundTime > 2

\* mutant: a flight has to last more than 11 ticks before a landing ends it
shouldEndFlying_LongerFlight(flyingTime, onGroundTime) ==
    flyingTime # 0 /\ onGroundTime > 2 /\ flyingTime > 11

\* this.flyingTime && this.onGroundTime > 2 && this.flyingTime > 10
shouldEndFlying(flyingTime, onGroundTime) ==
    flyingTime # 0 /\ onGroundTime > 2 /\ flyingTime > 10

\* mutant: flight starts only after two ticks of jump
shouldStartFlying_SecondTick(flyingTime, jumpingTime) ==
    flyingTime = 0 /\ jumpingTime > 1

\* !this.flyingTime && this.jumpingTime
shouldStartFlying(flyingTime, jumpingTime) ==
    flyingTime = 0 /\ jumpingTime # 0

\* the rider refresh of every 23rd tick
refreshRider(f) ==
    IF isCurrentTickNth(f, 23) THEN [f EXCEPT !.rider = getRider(f)] ELSE f

\* the grounded stamina recovery
groundedStamina(f) ==
    IF f.flyingTime = 0 /\ f.maxStamina.kind = "number"
    THEN clamp(plus(f.stamina, StaminaExhaustion.groundedTick), 0,
               f.maxStamina.value)
    ELSE f.stamina

\* the grounded stamina recovery: the delta it adds (history)
groundedDeltas(f) ==
    IF f.flyingTime = 0 /\ f.maxStamina.kind = "number"
    THEN {"groundedTick"} ELSE {}

\* EntityStore.get(this.comp.rider, "flightTimeElapsed") at the top of the
\* tick: the data stored on the rider is read whenever a rider is set
riderStore(f) == IF f.rider # "none" THEN "read" ELSE "untouched"

\* the rider is set, is a valid entity and rides this dragon
riderIsRiding(f) == f.rider # "none" /\ f.player = "riding"

\* processTamedFlight() in the tick f.currentTick.  musicStarts: the music
\* setting is on, the minimum flight time has elapsed and tryPlayingMusic
\* returns true.
processTamedFlight(f, jumpPressed, isOnGround, movement, diving, musicStarts) ==
    LET f1 == refreshRider(f)
        f2 == IF f1.onGroundTime = 0 /\ f1.rider # "none" /\ musicStarts
              THEN [f1 EXCEPT !.musicPlaying = TRUE] ELSE f1
        f3 == [f2 EXCEPT !.stamina = groundedStamina(f2),
                         !.last = [op |-> "exit", flyingTime |-> f.flyingTime,
                                   rider |-> f1.rider, player |-> f.player,
                                   jumpPressed |-> jumpPressed,
                                   isOnGround |-> isOnGround,
                                   riderStore |-> riderStore(f1),
                                   movement |-> "other", impulse |-> {},
                                   added |-> {},
                                   deltas |-> groundedDeltas(f2)]]
    IN  IF ~riderIsRiding(f3) THEN tryEndFlight(f3)
        ELSE LET f4 == [f3 EXCEPT
                           !.jumpingTime = IF jumpPressed THEN @ + 1 ELSE 0,
                           !.onGroundTime = IF isOnGround THEN @ + 1 ELSE 0,
                           !.isBoosting = FALSE]
                 f5 == IF shouldEndFlying(f4.flyingTime, f4.onGroundTime)
                       THEN [endFlying(f4) EXCEPT !.last.op = "end"]
                       ELSE IF shouldStartFlying(f4.flyingTime, f4.jumpingTime)
                       THEN [startFlying(f4) EXCEPT !.last.op = "start"]
                       ELSE IF f4.flyingTime # 0
                       THEN [continueFlying(f4, movement, diving) EXCEPT
                                !.last.op = "continue"]
                       ELSE [f4 EXCEPT !.last.op = "grounded"]
             IN  [f5 EXCEPT !.flyingTime = IF @ # 0 THEN @ + 1 ELSE 0]

FlightNotStarted == Constructed(FALSE, "dismounted", NoMaximum)

\* The flight system runs init() once after construction.
InitSystem ==
    /\ flight.phase = "constructed"
    /\ flight' = init(flight)
    /\ UNCHANGED <<scan, groundVars, yawVars, extraVars, melee, music>>

\* The callback init() scheduled 20 ticks ahead: comp.rider = getRider().
InitTimeout ==
    /\ flight.phase = "running"
    /\ flight.timeoutAt # 0
    /\ flight.currentTick = flight.timeoutAt
    /\ flight' = [flight EXCEPT !.rider = getRider(flight), !.timeoutAt = 0,
                                !.last.op = "timeout"]
    /\ UNCHANGED <<scan, groundVars, yawVars, extraVars, melee, music>>

\* One game tick of a tamed dragon: processTamedFlight with the inputs the
\* host reports in that tick.  A removed dragon is ticked until its flight
\* has ended.  isOnGround and the movement vector are read
\* only behind the rider checks, music only while off the ground with a rider.
ProcessTamedFlight ==
    /\ flight.phase = "running"
    /\ flight.tamed
    /\ flight.entityValid \/ flight.flyingTime # 0
    /\ ~(flight.timeoutAt # 0 /\ flight.currentTick = flight.timeoutAt)
    /\ flight.currentTick < MaxTick
    /\ flight.flyingTime < MaxFlyingTime
    /\ LET f == [flight EXCEPT !.currentTick = @ + 1]
           riding == riderIsRiding(refreshRider(f))
           airborne == f.onGroundTime = 0 /\ refreshRider(f).rider # "none"
           flying == riding /\ f.flyingTime # 0
       IN  \E jumpPressed \in BOOLEAN,
              isOnGround \in IF riding THEN BOOLEAN ELSE {FALSE},
              movement \in IF flying THEN Movements ELSE {"other"},
              diving \in IF flying THEN BOOLEAN ELSE {FALSE},
              musicStarts \in IF airborne THEN BOOLEAN ELSE {FALSE} :
              /\ (riding /\ jumpPressed) => f.jumpingTime < MaxJump
              /\ isOnGround => f.onGroundTime < MaxGround
              /\ movement = "none" => f.hoveringTime < MaxHover
              /\ flight' = processTamedFlight(f, jumpPressed, isOnGround,
                                              movement, diving, musicStarts)
    /\ UNCHANGED <<scan, groundVars, yawVars, extraVars, melee, music>>

\* The player gets on the dragon.
PlayerMounts ==
    /\ flight.phase = "running"
    /\ flight.entityValid
    /\ flight.player = "dismounted"
    /\ flight' = [flight EXCEPT !.player = "riding"]
    /\ UNCHANGED <<scan, groundVars, yawVars, extraVars, melee, music>>

\* The player is taken off the dragon.
PlayerDismounts ==
    /\ flight.phase = "running"
    /\ flight.player = "riding"
    /\ flight' = [flight EXCEPT !.player = "dismounted"]
    /\ UNCHANGED <<scan, groundVars, yawVars, extraVars, melee, music>>

\* The player leaves the world: the player entity is no longer valid.
PlayerLeaves ==
    /\ flight.phase = "running"
    /\ flight.entityValid
    /\ flight.player # "invalid"
    /\ flight' = [flight EXCEPT !.player = "invalid"]
    /\ UNCHANGED <<scan, groundVars, yawVars, extraVars, melee, music>>

\* The dragon entity is removed from the world in flight; its rider is off
\* it.  The world around a removed dragon is not followed any further.
DragonRemoved ==
    /\ flight.phase = "running"
    /\ flight.entityValid
    /\ flight.flyingTime # 0
    /\ flight' = [flight EXCEPT
                     !.entityValid = FALSE,
                     !.player = IF @ = "riding" THEN "dismounted" ELSE @]
    /\ UNCHANGED <<scan, groundVars, yawVars, extraVars, melee, music>>

\* The dragon reaches a milestone with a finite maxStamina.
MilestoneChanges ==
    /\ flight.phase = "running"
    /\ flight.entityValid
    /\ flight.maxStamina.kind # "number"
    /\ flight' = [flight EXCEPT !.maxStamina = Num(MaxStamina),
                                !.last.op = "milestone"]
    /\ UNCHANGED <<scan, groundVars, yawVars, extraVars, melee, music>>

(***************************************************************************)
(* Ambient music of the flight system: the music lines of                  *)
(* processTamedFlight and handleMusic.  The rest of the tick gives them    *)
(* comp.rider and onGroundTime; the counter and the setting are stored on  *)
(* the rider.                                                              *)
(***************************************************************************)
\* Main's TicksPerSecond
TicksPerSecond == 20

\* milestone.MusicTriggerInterval ?? DefaultDragon.MusicTriggerInterval
MusicTriggerInterval == 3

\* The constructor: flightTimeElapsed 0, musicPlaying false,
\* musicSettingEnabled true.  stored and storedSetting are the rider's
\* EntityStore entries flightTimeElapsed and flightMusic; airborneTicks
\* (history) counts the ticks since the dragon was last on the ground, up to
\* MusicTriggerInterval + 1.
MusicConstructed ==
    [currentTick |-> 0, flightTimeElapsed |-> 0, musicPlaying |-> FALSE,
     musicSettingEnabled |-> TRUE, stored |-> 0, storedSetting |-> TRUE,
     airborneTicks |-> 0,
     last |-> [op |-> "none", attempted |-> FALSE, rider |-> FALSE,
               onGround |-> FALSE, musicPlaying |-> FALSE,
               musicSettingEnabled |-> TRUE]]

\* handleMusic().  onGround: this.onGroundTime is not 0; started: the value
\* returned by this.music.tryPlayingMusic(chanceToTriggerMusic).
handleMusic(m, rider, onGround, started) ==
    IF m.flightTimeElapsed > MusicTriggerInterval /\ ~onGround /\ rider
    THEN [m EXCEPT !.musicPlaying = IF started THEN TRUE ELSE @,
                   !.flightTimeElapsed = 0,
                   !.stored = 0,
                   !.last.attempted = TRUE]
    ELSE m

\* The music lines at the top of processTamedFlight in the tick
\* m.currentTick.  rider: this.comp.rider is set.
musicLines(m, rider, onGround, started) ==
    LET m1 == [m EXCEPT
                  !.flightTimeElapsed = IF rider THEN m.stored ELSE 0,
                  !.musicSettingEnabled =
                      IF m.currentTick % TicksPerSecond # 0 /\ rider
                      THEN m.storedSetting ELSE @,
                  !.airborneTicks =
                      IF onGround THEN 0
                      ELSE IF @ > MusicTriggerInterval THEN @ ELSE @ + 1]
        m2 == [m1 EXCEPT
                  !.last = [op |-> "tick", attempted |-> FALSE,
                            rider |-> rider, onGround |-> onGround,
                            musicPlaying |-> m.musicPlaying,
                            musicSettingEnabled |-> m1.musicSettingEnabled]]
    IN  IF ~onGround /\ rider /\ m2.musicSettingEnabled
        THEN handleMusic([m2 EXCEPT !.flightTimeElapsed = @ + 1,
                                    !.stored = m2.flightTimeElapsed + 1],
                         rider, onGround, started)
        ELSE m2

\* stopMusic(), called by disable() when a flight is ended by tryEndFlight
stopMusic(m) == [m EXCEPT !.musicPlaying = FALSE, !.last.op = "stop"]

\* One game tick.  tryPlayingMusic is reached only off the ground with a
\* rider.
MusicTick ==
    \E rider \in BOOLEAN, onGround \in BOOLEAN :
        \E started \in IF rider /\ ~onGround THEN BOOLEAN ELSE {FALSE} :
            /\ music' = musicLines(
                   [music EXCEPT !.currentTick = (@ + 1) % TicksPerSecond],
                   rider, onGround, started)
            /\ UNCHANGED <<scan, groundVars, yawVars, extraVars, melee, flight>>

\* disable() with music playing
StopMusic ==
    /\ music.musicPlaying
    /\ music' = stopMusic(music)
    /\ UNCHANGED <<scan, groundVars, yawVars, extraVars, melee, flight>>

\* The rider changes the flightMusic setting.
SettingChanges ==
    /\ music' = [music EXCEPT !.storedSetting = ~@, !.last.op = "setting"]
    /\ UNCHANGED <<scan, groundVars, yawVars, extraVars, melee, flight>>

(***************************************************************************)
(* Landing: processTamedFlight for a rider who stays mounted and valid,    *)
(* with the number of ticks the flight in progress has spent on the        *)
(* ground in a row.                                                        *)
(***************************************************************************)
\* The longest stay on the ground that is followed.
MaxLanding == 12

NoLanding == [ticks |-> 0]

\* History: the consecutive ticks, up to and including this one, in which the
\* dragon was on the ground while its flight was in progress or began.
groundedFlightTicks(l, before, after, isOnGround) ==
    IF ~isOnGround THEN 0
    ELSE IF before.flyingTime # 0 THEN l.ticks + 1
    ELSE IF after.flyingTime # 0 THEN 1
    ELSE 0

\* One game tick of a tamed dragon whose rider stays mounted and valid.
LandingTick ==
    /\ flight.phase = "running"
    /\ flight.tamed
    /\ flight.entityValid
    /\ flight.player = "riding"
    /\ ~(flight.timeoutAt # 0 /\ flight.currentTick = flight.timeoutAt)
    /\ flight.currentTick < MaxTick
    /\ flight.flyingTime < MaxFlyingTime
    /\ LET f == [flight EXCEPT !.currentTick = @ + 1]
           flying == riderIsRiding(refreshRider(f)) /\ f.flyingTime # 0
       IN  \E jumpPressed \in BOOLEAN, isOnGround \in BOOLEAN,
              movement \in IF flying THEN Movements ELSE {"other"} :
              /\ jumpPressed => f.jumpingTime < MaxJump
              /\ isOnGround => f.onGroundTime < MaxLanding
              /\ movement = "none" => f.hoveringTime < MaxHover
              /\ riderIsRiding(refreshRider(f))
              /\ flight' = processTamedFlight(f, jumpPressed, isOnGround,
                                              movement, FALSE, FALSE)
              /\ landing' = [ticks |-> groundedFlightTicks(landing, flight,
                                                           flight', isOnGround)]
    /\ UNCHANGED <<scan, groundVars, yawVars, melee, music>>
    /\ UNCHANGED <<fov, velocity, ranged, tame>>

(***************************************************************************)
(* Field of view: handleFov.  FOV values are in thousandths.  The          *)
(* component values MinFov, FovChangeRate, MaxCruiseFov, MaxBoostFov and   *)
(* DisableSideFov are read from the dragon's component.                    *)
(***************************************************************************)
MaxCruiseFov == 60
MaxBoostFov == 70

\* this.fov = 0.05 in the constructor
InitialFov == 50

\* limits the FOV multiplier if there is only side input (0.7), in tenths
maxSideInputFovMultiplier == 7

NoFov ==
    [value |-> InitialFov, MinFov |-> 50, FovChangeRate |-> 5,
     DisableSideFov |-> FALSE,
     last |-> [op |-> "none", before |-> InitialFov, isHovering |-> FALSE,
               hasStamina |-> TRUE, isBoosting |-> FALSE, x |-> 0, y |-> 0]]

\* if (fov < target) fov += FovChangeRate;
\* else if (fov - target >= FovChangeRate) fov -= FovChangeRate;
approachFov(value, target, rate) ==
    IF value < target THEN value + rate
    ELSE IF value - target >= rate THEN value - rate
    ELSE value

\* handleFov(isHovering, hasStamina, isBoosting) with the movement vector
\* (x, y) of the rider: the new value of this.fov
handleFov(v, isHovering, hasStamina, isBoosting, x, y) ==
    LET forwardInput == y > 700
        backwardInput == y < -300
        sideInput == x > 700 \/ x < -700
        slowFlyStates == isHovering \/ ~hasStamina \/ backwardInput
        forwardFov == IF isBoosting THEN MaxBoostFov ELSE MaxCruiseFov
        sideFov == IF forwardInput THEN (forwardFov * y) \div 1000
                   ELSE (forwardFov * maxSideInputFovMultiplier) \div 10
    IN  IF ~v.DisableSideFov
           /\ ((sideInput /\ ~backwardInput) \/ (sideInput /\ forwardInput))
        THEN approachFov(v.value, sideFov, v.FovChangeRate)
        ELSE IF slowFlyStates
        THEN IF v.value > v.MinFov THEN v.value - v.FovChangeRate ELSE v.value
        ELSE IF forwardInput
        THEN approachFov(v.value, forwardFov, v.FovChangeRate)
        ELSE IF v.value - v.MinFov > -v.FovChangeRate
        THEN v.value - v.FovChangeRate
        ELSE v.value

\* One sustained-flight tick: continueFlying calls handleFov with isHovering
\* (no movement left after the transformation), hasStamina and isBoosting.
HandleFov ==
    /\ \E x \in {-1000, 0, 800, 1000}, y \in {-1000, 0, 800, 1000},
          hasStamina \in BOOLEAN, boostInput \in BOOLEAN :
          LET isHovering == x = 0 /\ y = 0
              isBoosting == boostInput /\ hasStamina
          IN  fov' = [fov EXCEPT
                         !.value = handleFov(fov, isHovering, hasStamina,
                                             isBoosting, x, y),
                         !.last = [op |-> "handleFov", before |-> fov.value,
                                   isHovering |-> isHovering,
                                   hasStamina |-> hasStamina,
                                   isBoosting |-> isBoosting,
                                   x |-> x, y |-> y]]
    /\ UNCHANGED <<scan, groundVars, yawVars, melee, flight, music>>
    /\ UNCHANGED <<landing, velocity, ranged, tame>>

(***************************************************************************)
(* Speed limit of continueFlying: the acceleration and the over-speed      *)
(* branch.  Speeds, percentages and factors are in thousandths.  The       *)
(* velocity lies along the view direction (a unit vector): v is its signed *)
(* length, v > 0 when the dragon moves the way the rider looks.            *)
(***************************************************************************)
\* comp.DecelerationFromMomentumChangeMinSpeed
DecelerationFromMomentumChangeMinSpeed == 300

SpeedInput(v, maxSpeed, isAccelerating, acceleration, changeInDirection, deceleration) ==
    [done |-> FALSE, v |-> v, maxSpeed |-> maxSpeed,
     isAccelerating |-> isAccelerating, acceleration |-> acceleration,
     changeInDirection |-> changeInDirection,
     DecelerationFromExceedingMaxSpeed |-> deceleration,
     result |-> [branch |-> "none", factor |-> 1000, acceleration |-> 0,
                 v |-> v]]

NoVelocity == SpeedInput(0, 1000, FALSE, 50, 0, 950)

\* MathUtil.clamp((maxSpeed - speed) / maxSpeed, 0, 1) - 0.017
pctToReachMaxSpeed(maxSpeed, speed) ==
    clamp(Num(((maxSpeed - speed) * 1000) \div maxSpeed), 0, 1000).value - 17

\* MathUtil.clamp((speed - maxSpeed) / maxSpeed, 0, 1) + 0.017
differencePct(speed, maxSpeed) ==
    clamp(Num(((speed - maxSpeed) * 1000) \div maxSpeed), 0, 1000).value + 17

\* The factor of the over-speed branch
decelerationFactor(speed, maxSpeed, decelerationSpeed) ==
    IF differencePct(speed, maxSpeed) > decelerationSpeed
    THEN 1000 - differencePct(speed, maxSpeed)
    ELSE decelerationSpeed

\* The if-else block that applies acceleration/deceleration to flight
applySpeedLimit(i) ==
    LET speed == Abs(i.v)
    IN  IF speed < i.maxSpeed /\ i.isAccelerating
        THEN LET slowed == IF speed > DecelerationFromMomentumChangeMinSpeed
                           THEN (i.v * (1000 - i.changeInDirection)) \div 1000
                           ELSE i.v
                 pct == pctToReachMaxSpeed(i.maxSpeed, speed)
                 acceleration == IF pct < i.acceleration THEN pct
                                 ELSE i.acceleration
             IN  [branch |-> "accelerate", factor |-> 1000,
                  acceleration |-> acceleration, v |-> slowed + acceleration]
        ELSE IF speed > i.maxSpeed
        THEN LET factor == decelerationFactor(speed, i.maxSpeed,
                               i.DecelerationFromExceedingMaxSpeed)
             IN  [branch |-> "decelerate", factor |-> factor,
                  acceleration |-> 0, v |-> (i.v * factor) \div 1000]
        ELSE [branch |-> "keep", factor |-> 1000, acceleration |-> 0,
              v |-> i.v]

\* The speed-limit step of one sustained-flight tick
ApplySpeedLimit ==
    /\ ~velocity.done
    /\ velocity' = [velocity EXCEPT !.done = TRUE,
                                    !.result = applySpeedLimit(velocity)]
    /\ UNCHANGED <<scan, groundVars, yawVars, melee, flight, music>>
    /\ UNCHANGED <<landing, fov, ranged, tame>>

(***************************************************************************)
(* Ranged attack: attack(), shootProjectile() and the callbacks attack()   *)
(* schedules with comp.timeout.                                            *)
(***************************************************************************)
\* The last tick that is followed, and the most callbacks pending at a trigger
MaxRangedTick == 9
MaxPending == 5

NoShot == [op |-> "none", trigger |-> 0, at |-> 0, tick |-> 0,
           rider |-> FALSE, spawned |-> FALSE]

\* The flight system after its constructor (lastAttackTime = 0), for a
\* milestone with the given projectileAttackCooldown (0 when it has none) and
\* the component's MultipleProjectilesData.
RangedConstructed(cooldown, data) ==
    [currentTick |-> 0, projectileAttackCooldown |-> cooldown,
     MultipleProjectilesData |-> data, lastAttackTime |-> 0,
     is_ranged_attacking |-> FALSE, rider |-> TRUE, timers |-> <<>>,
     last |-> NoShot]

NoMultipleProjectiles ==
    [defined |-> FALSE, shotCount |-> 0, intervalBetweenShots |-> 0]

NoRanged == RangedConstructed(0, NoMultipleProjectiles)

\* comp.timeSince(tick)
timeSince(r, tick) == r.currentTick - tick

\* mutant: the first shot waits one interval
delay_FromOne(data, i) == data.intervalBetweenShots * (i + 1)

\* const delay = MultipleProjectilesData.intervalBetweenShots * i
delay(data, i) == data.intervalBetweenShots * i

\* comp.timeout(callback, delay): the callback is pending until its tick
timeout(r, kind, ticks) ==
    [r EXCEPT !.timers = Append(@, [kind |-> kind, trigger |-> r.currentTick,
                                     at |-> r.currentTick + ticks])]

\* shootProjectile(): no rider, no projectile; spawnOk: spawnEntity does not
\* throw
shootProjectile(r, spawnOk, trigger, at) ==
    [r EXCEPT !.last = [op |-> "shot", trigger |-> trigger, at |-> at,
                        tick |-> r.currentTick, rider |-> r.rider,
                        spawned |-> r.rider /\ spawnOk]]

\* for (let i = 0; i < shotCount; i++) comp.timeout(shootProjectile, delay)
RECURSIVE scheduleShots(_, _)
scheduleShots(r, i) ==
    IF ~(i < r.MultipleProjectilesData.shotCount) THEN r
    ELSE scheduleShots(timeout(r, "shot",
                               delay(r.MultipleProjectilesData, i)), i + 1)

\* attack()
attack(r, spawnOk) ==
    IF timeSince(r, r.lastAttackTime) < r.projectileAttackCooldown
    THEN [r EXCEPT !.last = [NoShot EXCEPT !.op = "rejected",
                                           !.tick = r.currentTick]]
    ELSE LET r1 == [r EXCEPT !.is_ranged_attacking = TRUE,
                             !.last = [NoShot EXCEPT
                                          !.op = "attack",
                                          !.trigger = r.currentTick,
                                          !.tick = r.currentTick]]
             r2 == timeout(r1, "reset", 5)
             r3 == IF r2.MultipleProjectilesData.defined
                   THEN scheduleShots(r2, 0)
                   ELSE shootProjectile(r2, spawnOk, r.currentTick,
                                        r.currentTick)
         IN  [r3 EXCEPT !.lastAttackTime = r.currentTick]

\* The gm1_zen:on_hit trigger of this dragon arrives.
Attack ==
    /\ Len(ranged.timers) <= MaxPending
    /\ \E spawnOk \in IF ranged.MultipleProjectilesData.defined THEN {TRUE}
                     ELSE BOOLEAN :
          ranged' = attack(ranged, spawnOk)
    /\ UNCHANGED <<scan, groundVars, yawVars, melee, flight, music>>
    /\ UNCHANGED <<landing, fov, velocity, tame>>

\* The pending callbacks that are due, in the order they were scheduled
DueTimers(r) ==
    {k \in 1..Len(r.timers) : r.timers[k].at <= r.currentTick}

WithoutTimer(timers, k) ==
    [j \in 1..(Len(timers) - 1) |-> IF j < k THEN timers[j] ELSE timers[j + 1]]

\* A callback scheduled by attack() runs.
FireTimer ==
    /\ DueTimers(ranged) # {}
    /\ LET k == CHOOSE k \in DueTimers(ranged) :
                    \A j \in DueTimers(ranged) : k <= j
           t == ranged.timers[k]
           r == [ranged EXCEPT !.timers = WithoutTimer(@, k)]
       IN  IF t.kind = "reset"
           THEN ranged' = [r EXCEPT
                              !.is_ranged_attacking = FALSE,
                              !.last = [NoShot EXCEPT
                                           !.op = "reset",
                                           !.trigger = t.trigger,
                                           !.at = t.at,
                                           !.tick = r.currentTick]]
           ELSE \E spawnOk \in BOOLEAN :
                    ranged' = shootProjectile(r, spawnOk, t.trigger, t.at)
    /\ UNCHANGED <<scan, groundVars, yawVars, melee, flight, music>>
    /\ UNCHANGED <<landing, fov, velocity, tame>>

\* The next game tick begins once the callbacks of this one have run.
RangedTick ==
    /\ DueTimers(ranged) = {}
    /\ ranged.currentTick < MaxRangedTick
    /\ ranged' = [ranged EXCEPT !.currentTick = @ + 1]
    /\ UNCHANGED <<scan, groundVars, yawVars, melee, flight, music>>
    /\ UNCHANGED <<landing, fov, velocity, tame>>

\* comp.rider is set or cleared by the flight tick.
RiderChanges ==
    /\ ranged' = [ranged EXCEPT !.rider = ~@]
    /\ UNCHANGED <<scan, groundVars, yawVars, melee, flight, music>>
    /\ UNCHANGED <<landing, fov, velocity, tame>>

(***************************************************************************)
(* Ownership of one baby dragon: autoTameDrone, called when the naming     *)
(* form of the spawn handler completes and by the interaction handler.     *)
(***************************************************************************)
\* Two dragons as spawned: tamedToPlayerId is not set.
NoTame ==
    [tamedToPlayerId |-> [d \in {"d1", "d2"} |-> "none"],
     last |-> [op |-> "none", drone |-> "none", player |-> "none",
               ownerBefore |-> "none", returned |-> FALSE,
               message |-> "none", menu |-> FALSE]]

\* autoTameDrone(drone, player).  tameOk: tameable.tame(player) does not
\* throw; messageOk: player.sendMessage and player.playSound do not throw.
autoTameDrone(t, drone, player, tameOk, messageOk) ==
    IF t.tamedToPlayerId[drone] = "none"
    THEN IF ~tameOk THEN [t |-> t, returned |-> FALSE]
         ELSE [t |-> [t EXCEPT !.tamedToPlayerId[drone] = player],
               returned |-> messageOk]
    ELSE [t |-> t, returned |-> t.tamedToPlayerId[drone] = player]

\* getDroneOwner(drone): the online player the dragon is tamed to
getDroneOwner(t, drone, online) ==
    IF t.tamedToPlayerId[drone] # "none" /\ t.tamedToPlayerId[drone] \in online
    THEN t.tamedToPlayerId[drone] ELSE "none"

\* The naming form shown to the spawner completes: autoTameDrone(entity,
\* spawner).
SpawnFormCompleted ==
    /\ \E entity \in {"d1", "d2"}, spawner \in {"p1", "p2"},
          tameOk \in BOOLEAN, messageOk \in BOOLEAN :
          LET r == autoTameDrone(tame, entity, spawner, tameOk, messageOk)
          IN  tame' = [r.t EXCEPT
                          !.last = [op |-> "spawn", drone |-> entity,
                                    player |-> spawner,
                                    ownerBefore |-> tame.tamedToPlayerId[entity],
                                    returned |-> r.returned,
                                    message |-> "none", menu |-> FALSE]]
    /\ UNCHANGED <<scan, groundVars, yawVars, melee, flight, music>>
    /\ UNCHANGED <<landing, fov, velocity, ranged>>

\* The playerInteractWithEntity handler for a baby dragon and a player who
\* holds no feeding item.  ownerOnline: the owner is among
\* world.getAllPlayers(); the interacting player is.
PlayerInteractWithEntity ==
    /\ \E target \in {"d1", "d2"}, player \in {"p1", "p2"},
          tameOk \in BOOLEAN, messageOk \in BOOLEAN, ownerOnline \in BOOLEAN,
          isSneaking \in BOOLEAN, variantOne \in BOOLEAN :
          LET r == autoTameDrone(tame, target, player, tameOk, messageOk)
              online == {player} \cup
                        (IF ownerOnline THEN {"p1", "p2"} ELSE {})
              owner == getDroneOwner(r.t, target, online)
              message ==
                  IF ~r.returned THEN "Failed to establish connection"
                  ELSE IF owner = "none" THEN "Unable to identify dragon owner"
                  ELSE IF owner # player THEN "belongs to another player"
                  ELSE "none"
              menu == r.returned /\ owner = player /\ ~isSneaking /\ variantOne
          IN  tame' = [r.t EXCEPT
                          !.last = [op |-> "interact", drone |-> target,
                                    player |-> player,
                                    ownerBefore |-> tame.tamedToPlayerId[target],
                                    returned |-> r.returned,
                                    message |-> message, menu |-> menu]]
    /\ UNCHANGED <<scan, groundVars, yawVars, melee, flight, music>>
    /\ UNCHANGED <<landing, fov, velocity, ranged>>

(***************************************************************************)
(* Initial states and specifications.                                      *)
(***************************************************************************)
InitGroundVars ==
    /\ solidBlockStates = [a \in {} |-> FALSE]
    /\ transition = NoTransition
    /\ lastCall = [a \in Actors |-> NoCall]
    /\ riderTick = NoRiderTick

InitYawVars ==
    /\ rotationStates = [a \in {} |-> <<0, 0>>]
    /\ leftRight = [a \in Actors |-> "unset"]
    /\ yawResult = NoYawResult

InitMeleeVars == melee = NoMelee

InitFlightVars == flight = FlightNotStarted

InitMusicVars == music = MusicConstructed

InitExtraVars ==
    /\ landing = NoLanding
    /\ fov = NoFov
    /\ velocity = NoVelocity
    /\ ranged = NoRanged
    /\ tame = NoTame

\* Ground scan as a pure function: the inputs are drawn in the initial state.
InitScan ==
    /\ \E entityOk \in BOOLEAN, column \in Columns, maxDistance \in 0..MaxDepth :
           scan = ScanInput(entityOk, column, maxDistance)
    /\ InitGroundVars
    /\ InitYawVars
    /\ InitMeleeVars
    /\ InitFlightVars
    /\ InitMusicVars
    /\ InitExtraVars

NextScan == CheckSolidBlockBelow

SpecScan == InitScan /\ [][NextScan]_vars

\* Transition tracker: the recurring sensor tick calls it for any actor.
InitScanVars == scan = NoScan

InitGround ==
    /\ InitScanVars
    /\ InitGroundVars
    /\ InitYawVars
    /\ InitMeleeVars
    /\ InitFlightVars
    /\ InitMusicVars
    /\ InitExtraVars

NextGround ==
    \E actor \in Actors, actorOk \in BOOLEAN, column \in GroundColumns :
        DetectSolidBlockTransition(actor, actorOk, column)

SpecGround == InitGround /\ [][NextGround]_vars

\* Rider sensor tick: the handler runs every third game tick.
InitRiderTick ==
    /\ InitScanVars
    /\ InitGroundVars
    /\ InitYawVars
    /\ InitMeleeVars
    /\ InitFlightVars
    /\ InitMusicVars
    /\ InitExtraVars

NextRiderTick == DragonRiderTick

SpecRiderTick == InitRiderTick /\ [][NextRiderTick]_vars

\* Yaw tracker: the recurring sensor tick calls it for any dragon.
InitYaw ==
    /\ InitScanVars
    /\ InitGroundVars
    /\ InitYawVars
    /\ InitMeleeVars
    /\ InitFlightVars
    /\ InitMusicVars
    /\ InitExtraVars

NextYaw ==
    \E dragon \in Actors, dragonOk \in BOOLEAN,
       viewDirection \in ViewDirections, propOk \in BOOLEAN :
        DetectYawRotation(dragon, dragonOk, viewDirection, propOk)

SpecYaw == InitYaw /\ [][NextYaw]_vars

\* Melee attack: the inputs of one call are drawn in the initial state.  An
\* invalid dragon returns before anything else is read.
InitMelee ==
    /\ InitScanVars
    /\ InitGroundVars
    /\ InitYawVars
    /\ InitFlightVars
    /\ InitMusicVars
    /\ InitExtraVars
    /\ \/ melee = NoMelee
       \/ \E v \in MeleeViewDirections, rider \in {"none", PlayerId},
             nearbyEntities \in NearbyLists, messageOk \in BOOLEAN :
             /\ rider = "none" => messageOk
             /\ melee = MeleeInput(TRUE, v, rider, nearbyEntities, messageOk)

NextMelee == DragonMeleeAttack

SpecMelee == InitMelee /\ [][NextMelee]_vars

\* Flight: the world at construction is drawn in the initial state.
InitFlight ==
    /\ InitScanVars
    /\ InitGroundVars
    /\ InitYawVars
    /\ InitMeleeVars
    /\ InitMusicVars
    /\ InitExtraVars
    /\ \E tamed \in BOOLEAN, player \in {"riding", "dismounted"},
          maxStamina \in {NoMaximum, Num(MaxStamina)} :
          flight = Constructed(tamed, player, maxStamina)

NextFlight ==
    \/ InitSystem
    \/ InitTimeout
    \/ ProcessTamedFlight
    \/ PlayerMounts
    \/ PlayerDismounts
    \/ PlayerLeaves
    \/ DragonRemoved
    \/ MilestoneChanges

SpecFlight == InitFlight /\ [][NextFlight]_vars

\* Landing: the dragon is tamed and ridden from its construction on.
InitLanding ==
    /\ InitScanVars
    /\ InitGroundVars
    /\ InitYawVars
    /\ InitMeleeVars
    /\ InitMusicVars
    /\ InitExtraVars
    /\ \E maxStamina \in {NoMaximum, Num(MaxStamina)} :
          flight = Constructed(TRUE, "riding", maxStamina)

SpecLanding ==
    InitLanding /\ [][InitSystem \/ InitTimeout \/ LandingTick]_vars

\* Field of view: the component values are drawn in the initial state.
InitFov ==
    /\ InitScanVars
    /\ InitGroundVars
    /\ InitYawVars
    /\ InitMeleeVars
    /\ InitFlightVars
    /\ InitMusicVars
    /\ landing = NoLanding
    /\ velocity = NoVelocity
    /\ ranged = NoRanged
    /\ tame = NoTame
    /\ \E minFov \in {46, 50}, rate \in {3, 5}, disableSideFov \in BOOLEAN :
          fov = [NoFov EXCEPT !.MinFov = minFov, !.FovChangeRate = rate,
                              !.DisableSideFov = disableSideFov]

SpecFov == InitFov /\ [][HandleFov]_vars

\* Speed limit as a pure function: the inputs are drawn in the initial state.
InitSpeed ==
    /\ InitScanVars
    /\ InitGroundVars
    /\ InitYawVars
    /\ InitMeleeVars
    /\ InitFlightVars
    /\ InitMusicVars
    /\ landing = NoLanding
    /\ fov = NoFov
    /\ ranged = NoRanged
    /\ tame = NoTame
    /\ \E v \in {-1900, -400, 0, 100, 400, 900, 1000, 1100, 1500, 2000, 4000},
          maxSpeed \in {500, 1000, 2000}, isAccelerating \in BOOLEAN,
          acceleration \in {50, 300, 1000}, changeInDirection \in {0, 500},
          deceleration \in {500, 950} :
          velocity = SpeedInput(v, maxSpeed, isAccelerating, acceleration,
                                changeInDirection, deceleration)

SpecSpeed == InitSpeed /\ [][ApplySpeedLimit]_vars

\* Ranged attack: the cooldown and the projectile data are drawn in the
\* initial state.
InitRanged ==
    /\ InitScanVars
    /\ InitGroundVars
    /\ InitYawVars
    /\ InitMeleeVars
    /\ InitFlightVars
    /\ InitMusicVars
    /\ landing = NoLanding
    /\ fov = NoFov
    /\ velocity = NoVelocity
    /\ tame = NoTame
    /\ \E cooldown \in {0, 3},
          data \in {NoMultipleProjectiles,
                    [defined |-> TRUE, shotCount |-> 3,
                     intervalBetweenShots |-> 2]} :
          ranged = RangedConstructed(cooldown, data)

SpecRanged ==
    InitRanged /\ [][Attack \/ FireTimer \/ RangedTick \/ RiderChanges]_vars

\* Ownership: a dragon that has just spawned.
InitTame ==
    /\ InitScanVars
    /\ InitGroundVars
    /\ InitYawVars
    /\ InitMeleeVars
    /\ InitFlightVars
    /\ InitMusicVars
    /\ InitExtraVars

SpecTame ==
    InitTame /\ [][SpawnFormCompleted \/ PlayerInteractWithEntity]_vars

\* Ambient music: ticks, forced flight ends and changes of the setting.
InitMusic ==
    /\ InitScanVars
    /\ InitGroundVars
    /\ InitYawVars
    /\ InitMeleeVars
    /\ InitFlightVars
    /\ InitMusicVars
    /\ InitExtraVars

NextMusic ==
    \/ MusicTick
    \/ StopMusic
    \/ SettingChanges

SpecMusic == InitMusic /\ [][NextMusic]_vars

(***************************************************************************)
(* Claims.                                                                 *)
(***************************************************************************)
\* the lookup at offset d of a column returns a block that is not in the
\* non-solid set
SolidAt(column, d) ==
    /\ column[d] \notin {"throw", "null"}
    /\ column[d] \notin nonSolidBlocks

\* C4: detectSolidBlockTransition reports "before" (landed) iff the stored
\* previous flag is false (or absent) and the actor is grounded now, "after"
\* (took-off) iff the stored flag is true and the actor is not grounded now,
\* "none" otherwise, and afterwards the stored flag is the current reading
\* (for every call that does not end in its error path).
C4_EdgeFromStoredFlag ==
    (transition.actor # "none" /\ transition.transitionType # "error") =>
        LET prev == transition.storedBefore = "true"
            now == transition.hasSolidBlockNow
            type == transition.transitionType
        IN  /\ (type = "before") <=> (~prev /\ now)
            /\ (type = "after") <=> (prev /\ ~now)
            /\ (type = "none") <=> (prev = now)
            /\ type \in {"before", "after", "none"}
            /\ transition.hadSolidBlockBefore = prev
            /\ transition.actor \in DOMAIN solidBlockStates
            /\ solidBlockStates[transition.actor] = now

\* C4 witness: a first call for an actor that is grounded reports "before",
\* and a take-off of a stored grounded actor reports "after"
C4_Witness ==
    /\ transition.actor = "a2"
    /\ transition.storedBefore = "true"
    /\ transition.transitionType = "after"
    /\ lastCall["a1"].type = "before"
    /\ lastCall["a1"].prevType = "nocall"

\* C5: two consecutive calls of one actor with the same grounded reading never
\* both report an edge, and the reported edges alternate, starting with
\* "before" (landed).
C5_EdgesAlternate ==
    \A a \in Actors :
        LET c == lastCall[a] IN
            /\ (IsEdge(c.prevType) /\ IsEdge(c.type)) => c.prevHasNow # c.hasNow
            /\ IsEdge(c.type) => c.type # c.prevEdge
            /\ (IsEdge(c.type) /\ c.prevEdge = "none") => c.type = "before"

\* C5 witness: a landing edge that follows a take-off edge, and a second call
\* with the same grounded reading that reports no edge
C5_Witness ==
    /\ lastCall["a1"].type = "before"
    /\ lastCall["a1"].prevEdge = "after"
    /\ lastCall["a2"].prevType = "before"
    /\ lastCall["a2"].prevHasNow
    /\ lastCall["a2"].hasNow
    /\ lastCall["a2"].type = "none"

\* C6: checkSolidBlockBelow returns found with distance d iff d is the smallest
\* offset in 0..maxDistance whose lookup returns a block not in the non-solid
\* set, and returns not found with distance Infinity iff no offset in
\* 0..maxDistance has such a block (the actor's position being readable).
C6_FirstSolidOffset ==
    (scan.called /\ scan.entityOk) =>
        LET r == scan.result
            col == scan.column
            m == scan.maxDistance
        IN  /\ \A d \in 0..MaxDepth :
                  (r.hasSolidBlockBelow /\ r.distance = d) <=>
                      /\ d <= m
                      /\ SolidAt(col, d)
                      /\ \A e \in 0..(d - 1) : ~SolidAt(col, e)
            /\ (~r.hasSolidBlockBelow /\ r.distance = Infinity) <=>
                  (\A d \in 0..m : ~SolidAt(col, d))
            /\ r.hasSolidBlockBelow => r.distance \in 0..m
            /\ r.hasSolidBlockBelow => r.block = col[r.distance]

\* C6 witness: a non-solid block at the feet, no block at offset 1, the first
\* solid block at offset 2
C6_Witness ==
    /\ scan.called
    /\ scan.entityOk
    /\ scan.maxDistance = 2
    /\ scan.column[0] = "minecraft:snow"
    /\ scan.column[1] = "null"
    /\ scan.column[2] = "minecraft:stone"
    /\ scan.result.hasSolidBlockBelow
    /\ scan.result.distance = 2

\* C7: a lookup that throws at one offset does not abort the scan: every
\* deeper offset up to the first solid block (or maxDistance) is still probed,
\* and a solid block at a deeper offset is still reported.
C7_ThrowDoesNotAbort ==
    (scan.called /\ scan.entityOk) =>
        LET r == scan.result
            col == scan.column
            m == scan.maxDistance
        IN  \A i \in 0..m :
                (col[i] = "throw" /\ \A e \in 0..(i - 1) : ~SolidAt(col, e)) =>
                    \A j \in i..m :
                        (\A e \in i..(j - 1) : ~SolidAt(col, e)) =>
                            /\ (-j) \in r.probed
                            /\ SolidAt(col, j) =>
                                  (r.hasSolidBlockBelow /\ r.distance = j)

\* C7 witness: the lookups at offsets 0 and 1 throw and the block at offset 2
\* is found
C7_Witness ==
    /\ scan.called
    /\ scan.entityOk
    /\ scan.maxDistance = 3
    /\ scan.column[0] = "throw"
    /\ scan.column[1] = "throw"
    /\ scan.column[2] = "minecraft:stone"
    /\ scan.result.hasSolidBlockBelow
    /\ scan.result.distance = 2
    /\ scan.result.probed = {0, -1, -2}

\* C8: detectYawRotation reports "left" iff the normalized yaw delta (current
\* yaw minus previously stored yaw) is above +1 degree, "right" iff it is
\* below -1 degree, "none" otherwise, and afterwards the stored previous facing
\* is the facing observed in the call (for calls that do not end in the error
\* path).
C8_ClassifyByDelta ==
    (yawResult.entity # "none" /\ yawResult.rotationDirection # "error") =>
        LET d == yawResult.yawDifference
            dir == yawResult.rotationDirection
            raw == yawResult.currentYaw - yawResult.previousYaw
        IN  /\ (dir = "left") <=> (d > 1000)
            /\ (dir = "right") <=> (d < -1000)
            /\ (dir = "none") <=> (d >= -1000 /\ d <= 1000)
            /\ (d - raw) % 360000 = 0
            /\ d >= -180000 /\ d <= 180000
            /\ yawResult.hadState =>
                  yawResult.previousYaw =
                      calculateYawFromDirection(yawResult.storedBefore[1],
                                                yawResult.storedBefore[2])
            /\ yawResult.entity \in DOMAIN rotationStates
            /\ rotationStates[yawResult.entity] = yawResult.viewDirection

\* C8 witness: a turn of 1.005 degrees to the right is reported as "right",
\* and the facing of the call is stored
C8_Witness ==
    /\ yawResult.hadState
    /\ yawResult.storedBefore = <<1, 57>>
    /\ yawResult.viewDirection = <<0, 1>>
    /\ yawResult.yawDifference = -1005
    /\ yawResult.rotationDirection = "right"
    /\ rotationStates[yawResult.entity] = <<0, 1>>

\* C9: when the yaw of a call is the yaw of the previous call of that actor
\* plus a step s with 1 < s < 180 degrees (modulo 360, so also across the wrap
\* from +180 to -180), the call is classified "left"; a call with the same
\* facing vector as the previous call is classified "none".
C9_IncreasingYawIsLeft ==
    (/\ yawResult.entity # "none"
     /\ yawResult.rotationDirection # "error"
     /\ yawResult.hadState) =>
        LET s == (calculateYawFromDirection(yawResult.viewDirection[1],
                                            yawResult.viewDirection[2])
                  - calculateYawFromDirection(yawResult.storedBefore[1],
                                              yawResult.storedBefore[2]))
                 % 360000
        IN  /\ (s > 1000 /\ s < 180000) =>
                  yawResult.rotationDirection = "left"
            /\ (yawResult.viewDirection = yawResult.storedBefore) =>
                  yawResult.rotationDirection = "none"

\* C9 witness: a step of 90 degrees across the wrap, from 180 to -90 degrees
C9_Witness ==
    /\ yawResult.hadState
    /\ yawResult.storedBefore = <<0, -1>>
    /\ yawResult.viewDirection = <<-1, 0>>
    /\ yawResult.previousYaw = 180000
    /\ yawResult.currentYaw = -90000
    /\ yawResult.rotationDirection = "left"

\* The square of the distance from the dragon to the entity at index i
C10_DistanceSq(i) ==
    LET l == melee.nearbyEntities[i].location
    IN  (l[1] - dragonLocation[1]) * (l[1] - dragonLocation[1])
        + (l[2] - dragonLocation[2]) * (l[2] - dragonLocation[2])
        + (l[3] - dragonLocation[3]) * (l[3] - dragonLocation[3])

\* The conditions the claim lists, for the entity at index i: valid, not the
\* attacker, not the rider, not a dragon or baby dragon, 0.5 <= distance <= 5,
\* and the x and z terms of the dot product of the view direction with the
\* unit vector to the entity sum to more than 0.5.
C10_Eligible(i) ==
    LET e == melee.nearbyEntities[i]
        v == melee.viewDirection
        id == EntityId(e, i)
        s == 2 * (v.x * (e.location[1] - dragonLocation[1])
                  + v.z * (e.location[3] - dragonLocation[3]))
    IN  /\ e.isValid
        /\ id # DragonId
        /\ ~(melee.rider # "none" /\ id = melee.rider)
        /\ e.typeId \notin {"re_dra:dragon", "re_dra:dragon_baby"}
        /\ C10_DistanceSq(i) >= 25
        /\ C10_DistanceSq(i) <= 2500
        /\ s > 0
        /\ s * s > v.n * v.n * C10_DistanceSq(i)

\* 4 points of entityAttack damage from the attacker were applied to entity i
C10_Damaged(i) ==
    \E k \in 1..Len(melee.result.damageLog) :
        melee.result.damageLog[k] =
            [target |-> EntityId(melee.nearbyEntities[i], i), amount |-> 4,
             cause |-> "entityAttack", damagingEntity |-> DragonId]

\* entity i is in the returned hitEntities
C10_Listed(i) ==
    \E k \in 1..Len(melee.result.hitEntities) :
        melee.result.hitEntities[k] = EntityId(melee.nearbyEntities[i], i)

FlightTicked ==
    flight.last.op \in {"exit", "end", "start", "continue", "grounded"}

\* In that tick the rider was set, valid and riding the dragon
FlightRiderOk ==
    flight.last.rider # "none" /\ flight.last.player = "riding"

\* C1 as stated: whenever milestone.maxStamina is a finite number, the stamina
\* stored at the end of a tick is a number in [0, maxStamina].
C1_StaminaInRange ==
    (FlightTicked /\ flight.maxStamina.kind = "number") =>
        /\ flight.stamina.kind = "number"
        /\ flight.stamina.value >= 0
        /\ flight.stamina.value <= flight.maxStamina.value

\* C2: flight that ends in a tick while the rider is present, valid and riding
\* ends with flyingTime > 10 at the start of the tick and onGroundTime > 2;
\* flight that ends otherwise ends by the forced path, which clears the rider.
C2_FlightEndsOnlyAfterMinimums ==
    (FlightTicked /\ flight.last.flyingTime # 0 /\ flight.flyingTime = 0) =>
        IF FlightRiderOk
        THEN /\ flight.last.flyingTime > 10
             /\ flight.onGroundTime > 2
             /\ flight.last.isOnGround
        ELSE flight.rider = "none"

\* A landing: flying for 11 ticks, the third tick on the ground in a row
C2_Witness ==
    /\ FlightTicked
    /\ FlightRiderOk
    /\ flight.last.flyingTime = 11
    /\ flight.onGroundTime = 3
    /\ flight.flyingTime = 0
    /\ flight.is_flying = FALSE
    /\ flight.rider = "player"

\* C3: in a tick, flight starts (flyingTime leaves 0) if and only if the rider
\* is present, valid and riding, flyingTime is 0 at the start of the tick and
\* the jump button is pressed in the tick.
C3_FlightStartsIffJumpWhileGrounded ==
    FlightTicked =>
        ((flight.last.flyingTime = 0 /\ flight.flyingTime # 0)
            <=> (FlightRiderOk /\ flight.last.flyingTime = 0
                 /\ flight.last.jumpPressed))

\* A takeoff: the rider presses jump on a grounded dragon
C3_Witness ==
    /\ FlightTicked
    /\ FlightRiderOk
    /\ flight.last.flyingTime = 0
    /\ flight.last.jumpPressed
    /\ flight.flyingTime = 2
    /\ flight.is_flying
    /\ ~flight.permissions

\* applyDamage was called on the entity at index i
C11_Attempted(i) ==
    \E k \in 1..Len(melee.result.attempts) :
        melee.result.attempts[k] = EntityId(melee.nearbyEntities[i], i)

\* C11: in no call of dragonMeleeAttack is applyDamage called on the attacker,
\* on the rider passed to the call, or on an entity of type re_dra:dragon or
\* re_dra:dragon_baby, wherever these stand.
C11_AlliesNeverDamaged ==
    melee.done =>
        /\ \A k \in 1..Len(melee.result.attempts) :
               /\ melee.result.attempts[k] # DragonId
               /\ melee.rider # "none" =>
                      melee.result.attempts[k] # melee.rider
        /\ \A k \in 1..Len(melee.result.damageLog) :
               /\ melee.result.damageLog[k].target # DragonId
               /\ melee.rider # "none" =>
                      melee.result.damageLog[k].target # melee.rider
        /\ \A i \in 1..Len(melee.nearbyEntities) :
               melee.nearbyEntities[i].typeId
                       \in {"re_dra:dragon", "re_dra:dragon_baby"}
                   => ~C11_Attempted(i) /\ ~C10_Damaged(i)

\* The rider and a baby dragon stand 3 blocks in front of the attacker, inside
\* range and cone, and neither is touched.
C11_Witness ==
    /\ melee.done
    /\ melee.dragonValid
    /\ melee.rider = PlayerId
    /\ Len(melee.nearbyEntities) = 2
    /\ melee.nearbyEntities[1].kind = "player"
    /\ melee.nearbyEntities[2].typeId = "re_dra:dragon_baby"
    /\ melee.viewDirection = [x |-> 0, y |-> 0, z |-> 1, n |-> 1]
    /\ C10_DistanceSq(1) = 900
    /\ C10_DistanceSq(2) = 900
    /\ melee.result.attempts = <<>>
    /\ melee.result.success

\* C12 as stated: when applyDamage throws on one eligible entity, that entity
\* is not in hitEntities and every other eligible entity of the scan (whose
\* own applyDamage succeeds) is still damaged and listed.
C12_DamageThrowIsIsolated ==
    (melee.done /\ melee.dragonValid) =>
        \A i \in 1..Len(melee.nearbyEntities) :
            (C10_Eligible(i) /\ melee.nearbyEntities[i].damage = "throw") =>
                /\ ~C10_Listed(i)
                /\ \A j \in 1..Len(melee.nearbyEntities) :
                       (j # i /\ C10_Eligible(j)
                        /\ melee.nearbyEntities[j].damage = "true")
                           => (C10_Damaged(j) /\ C10_Listed(j))

\* Flight ended in the last tick: flyingTime went from non-zero to 0
FlightEnded ==
    FlightTicked /\ flight.last.flyingTime # 0 /\ flight.flyingTime = 0

\* C13 as stated: at the end of every tick, flyingTime > 0 implies that
\* flight_state is "flying" or "hovering", also in the tick flight starts.
C13_FlyingImpliesAirborneState ==
    (FlightTicked /\ flight.flyingTime > 0) =>
        flight.flight_state \in {"flying", "hovering"}

\* C14 as stated: after init and at the end of every tick, flyingTime = 0
\* implies is_flying false and flight_state "grounded", for a rider present
\* or absent and a dragon tamed or not at init.
C14_GroundedWhenNotFlying ==
    (flight.phase = "running" /\ flight.flyingTime = 0) =>
        (flight.is_flying = FALSE /\ flight.flight_state = "grounded")

\* C15 as stated: whenever flight ends, by landing, by the rider no longer
\* riding or by the rider refresh finding no rider, a rider that is still a
\* valid entity has the input permissions restored.
C15_PermissionsRestored ==
    (FlightEnded /\ flight.last.player # "invalid") => flight.permissions

\* C16: whenever flight ends while the dragon entity is valid, at the end of
\* the tick flyingTime is 0, is_flying, is_boosting and is_hovering are false,
\* flight_state is "grounded" and levitation and slow_falling are removed.
C16_EndFlyingClearsFlightState ==
    (FlightEnded /\ flight.entityValid) =>
        /\ flight.flyingTime = 0
        /\ flight.is_flying = FALSE
        /\ flight.is_boosting = FALSE
        /\ flight.is_hovering = FALSE
        /\ flight.flight_state = "grounded"
        /\ ~flight.levitation
        /\ ~flight.slow_falling

\* A landing out of a hover (slow_falling was on) that clears everything
C16_Witness ==
    /\ FlightEnded
    /\ flight.entityValid
    /\ flight.last.op = "end"
    /\ flight.hoveringTime > 0
    /\ flight.is_flying = FALSE
    /\ flight.flight_state = "grounded"
    /\ ~flight.slow_falling

\* C17 as stated: after any tick in which flight ends, by landing or by
\* dismount / invalidation, musicPlaying is false.
C17_MusicStoppedWhenFlightEnds ==
    FlightEnded => ~flight.musicPlaying

\* C18 as stated: in every tick, data of the rider is read or written only
\* after the rider was found present, valid and riding this dragon.
C18_RiderCheckedBeforeUse ==
    (FlightTicked /\ flight.last.riderStore # "untouched") => FlightRiderOk

\* C19: an exception raised while dragonRiderTick processes one rider does
\* not leave the handler, and every other rider of that tick is still
\* processed to the end of the loop body.
C19_OnlyThrowingActorSkipped ==
    riderTick.thrower # "none" =>
        /\ ~riderTick.escaped
        /\ \A i \in 1..Len(riderTick.riders) :
               riderTick.riders[i] # riderTick.thrower =>
                   riderTick.riders[i] \in riderTick.completed

\* C20: after a detectYawRotation call that returns "left", "right" or
\* "none", the dragon's re_dra:left_right property equals the returned
\* direction.
C20_PropertyEqualsReturnedDirection ==
    (/\ yawResult.entity # "none"
     /\ yawResult.rotationDirection \in {"left", "right", "none"}) =>
        leftRight[yawResult.entity] = yawResult.rotationDirection

\* The Maps that hold no entry for the actor a
MapsWithout(a) == UNION {[d -> BOOLEAN] : d \in SUBSET (Actors \ {a})}

\* The first half of C21: without a stored entry the previous grounded flag
\* is false, so the first call reports "before" on solid ground and "none"
\* in the air
C21_FirstGroundCallUsesFalse ==
    \A a \in Actors : \A states \in MapsWithout(a) :
        /\ previousState(states, a) = FALSE
        /\ \A column \in GroundColumns :
               LET r == detectSolidBlockTransition(states, a, TRUE, column)
               IN  r.transitionType =
                       (IF r.hasSolidBlockNow THEN "before" ELSE "none")

\* the last detectYawRotation call was the first one for its dragon and did
\* not end in the error path
C21_FirstYawCall ==
    /\ yawResult.entity # "none"
    /\ ~yawResult.hadState
    /\ yawResult.rotationDirection # "error"

\* C21 as stated: for an actor with no stored entry the first
\* detectSolidBlockTransition call uses a previous grounded flag of false,
\* and the first detectYawRotation call computes its yaw delta against the
\* previous facing (0,0), that is yaw 0.
C21_FirstCallDefaults ==
    /\ C21_FirstGroundCallUsesFalse
    /\ C21_FirstYawCall =>
           /\ yawResult.previousYaw = 0
           /\ yawResult.yawDifference = wrapYawDiff(yawResult.currentYaw - 0)

\* C21, amended: for an actor with no stored entry the first
\* detectSolidBlockTransition call uses a previous grounded flag of false,
\* and the first detectYawRotation call takes the facing of the call itself
\* as the previous facing: its yaw delta is 0, its direction "none", and the
\* facing of the call is stored.
C21_FirstYawCallUsesCurrentFacing ==
    /\ C21_FirstGroundCallUsesFalse
    /\ C21_FirstYawCall =>
           /\ yawResult.previousYaw = yawResult.currentYaw
           /\ yawResult.yawDifference = 0
           /\ yawResult.rotationDirection = "none"
           /\ rotationStates[yawResult.entity] = yawResult.viewDirection

\* C21 witness: a first call facing east (yaw 90 degrees) reports no turn
C21_Witness ==
    /\ C21_FirstYawCall
    /\ yawResult.viewDirection = <<1, 0>>
    /\ yawResult.currentYaw = 90000
    /\ yawResult.previousYaw = 90000
    /\ yawResult.rotationDirection = "none"

\* C22: the yaw delta returned by detectYawRotation is greater than -180
\* degrees and at most 180 degrees.
C22_DeltaInHalfOpenRange ==
    (yawResult.entity # "none" /\ yawResult.rotationDirection # "error") =>
        /\ yawResult.yawDifference > -180000
        /\ yawResult.yawDifference <= 180000

\* The grounded reading of a probe of depth 2 over a column
C23_ReadingAtDepthTwo(column) ==
    \E d \in 0..2 : SolidAt(column, d)

FlightContinues ==
    /\ flight'.currentTick = flight.currentTick + 1
    /\ flight'.last.op = "continue"

\* stamina is positive or infinite
C24_HasStamina(stamina) ==
    \/ stamina.kind = "infinite"
    \/ stamina.kind = "number" /\ stamina.value > 0

\* C24: in a sustained-flight tick the actor is boosting (is_boosting set
\* true) iff the rider holds forward movement input, stamina is positive or
\* infinite at the start of the tick, and the actor is not hovering.
C24_BoostingIffForwardInput ==
    [][FlightContinues =>
          (flight'.is_boosting <=>
              /\ flight'.last.movement = "forward"
              /\ C24_HasStamina(flight.stamina)
              /\ ~flight'.is_hovering)]_vars

\* C25: at the end of every sustained-flight tick is_boosting and is_hovering
\* are not both true, including the tick in which hovering begins.
C25_NeverBoostingAndHovering ==
    flight.last.op = "continue" =>
        ~(flight.is_boosting /\ flight.is_hovering)

\* C26: in a sustained-flight tick without steering input (hovering) no
\* velocity impulse is applied by steering or by diving, hoveringTime grows
\* by exactly 1, slow_falling is added only in the tick where hoveringTime
\* becomes 1, and levitation is applied only in a tick that is a multiple
\* of 20.
C26_HoveringTick ==
    [][(FlightContinues /\ flight'.last.movement = "none") =>
          /\ flight'.last.impulse = {}
          /\ flight'.hoveringTime = flight.hoveringTime + 1
          /\ "slow_falling" \in flight'.last.added =>
                 flight'.hoveringTime = 1
          /\ "levitation" \in flight'.last.added =>
                 flight'.currentTick % 20 = 0
          /\ flight'.is_hovering]_vars

\* C26 witness: the second hovering tick of a flight falls on tick 20: the
\* levitation effect is added, slow_falling is not added again, and no
\* impulse is applied
C26_Witness ==
    /\ flight.last.op = "continue"
    /\ flight.last.movement = "none"
    /\ flight.currentTick = 20
    /\ flight.hoveringTime = 2
    /\ flight.last.added = {"levitation"}
    /\ flight.last.impulse = {}
    /\ flight.levitation

\* C27: hoveringTime is 0 whenever flyingTime is 0, so that a flight that
\* starts after a landing made while hovering begins with hoveringTime 0.
C27_HoveringClearedWhenNotFlying ==
    flight.flyingTime = 0 => flight.hoveringTime = 0

\* C28: a music attempt (tryPlayingMusic) is made in a tick only if the
\* dragon has been off the ground, with no grounded tick in between, for
\* more than MusicTriggerInterval ticks with the music setting enabled; after
\* every attempt the elapsed-flight counter is 0.
C28_AttemptOnlyAfterContinuousFlight ==
    music.last.attempted =>
        /\ music.airborneTicks > MusicTriggerInterval
        /\ music.last.musicSettingEnabled
        /\ music.flightTimeElapsed = 0
        /\ music.stored = 0

\* C29: tryPlayingMusic is never called in a tick in which musicPlaying is
\* already true.
C29_NoAttemptWhileMusicPlaying ==
    music.last.attempted => ~music.last.musicPlaying

\* the tick began with flyingTime > 0 and a mounted valid rider
C30_BeganFlyingWithRider ==
    FlightTicked /\ flight.last.flyingTime # 0 /\ FlightRiderOk

\* C30: with a finite maxStamina, every tick that begins with flyingTime > 0
\* and a mounted valid rider applies the flight stamina delta (flightTick
\* when not hovering, hoveringTick when hovering), and the grounded recovery
\* (groundedTick) is applied only in ticks that begin with flyingTime == 0
\* and in which flight does not start.
C30_StaminaDeltaByFlightState ==
    (FlightTicked /\ flight.maxStamina.kind = "number") =>
        /\ C30_BeganFlyingWithRider =>
               flight.last.deltas \cap {"flightTick", "hoveringTick"} # {}
        /\ "groundedTick" \in flight.last.deltas =>
               (flight.last.flyingTime = 0 /\ flight.last.op # "start")

\* The horizontal test the claim describes, for the entity at index i:
\* valid, not the attacker, the rider or a dragon, horizontal distance
\* between 0.5 and 5 blocks, and more than 0.5 for the dot product of the
\* horizontal unit vectors of the facing and of the offset.
C33_HorizontallyInCone(i) ==
    LET e == melee.nearbyEntities[i]
        v == melee.viewDirection
        id == EntityId(e, i)
        tx == e.location[1] - dragonLocation[1]
        tz == e.location[3] - dragonLocation[3]
        hSq == tx * tx + tz * tz
        a == 2 * (v.x * tx + v.z * tz)
    IN  /\ e.isValid
        /\ id # DragonId
        /\ ~(melee.rider # "none" /\ id = melee.rider)
        /\ e.typeId \notin {"re_dra:dragon", "re_dra:dragon_baby"}
        /\ hSq >= 25
        /\ hSq <= 2500
        /\ a > 0
        /\ a * a > (v.x * v.x + v.z * v.z) * hSq

\* C33: the range and cone checks depend only on the horizontal offset and
\* the horizontal facing: a candidate horizontally in front and within range
\* reaches applyDamage whatever its height and the attacker's view pitch,
\* and no other candidate does.
C33_ConeTestIsHorizontal ==
    (melee.done /\ melee.dragonValid) =>
        \A i \in 1..Len(melee.nearbyEntities) :
            C11_Attempted(i) <=> C33_HorizontallyInCone(i)

\* C36: the returned hitCount is the length of hitEntities and the number of
\* entities to which damage was applied in the call, also when the call ends
\* through its outer error path.
C36_HitCountIsNumberDamaged ==
    melee.done =>
        /\ melee.result.hitCount = Len(melee.result.hitEntities)
        /\ melee.result.hitCount = Len(melee.result.damageLog)


\* C35: per-actor tracker state is independent.  A detectSolidBlockTransition or
\* detectYawRotation call for one actor leaves the stored ground and rotation
\* entries of every other actor unchanged, and no call removes an entry (a Map
\* holds one entry per key: the Maps are functions of the actor key).  The yaw
\* tracker is followed step by step; the ground tracker is checked as a function
\* of every Map over the actors, every caller and every input.
C35_EntriesKept(before, after, caller) ==
    /\ DOMAIN before \subseteq DOMAIN after
    /\ DOMAIN after \subseteq DOMAIN before \cup {caller}
    /\ \A b \in DOMAIN before : b # caller => after[b] = before[b]

C35_GroundMaps ==
    UNION { [keys -> BOOLEAN] : keys \in SUBSET Actors }

C35_GroundEntriesKept ==
    \A states \in C35_GroundMaps, actor \in Actors, actorOk \in BOOLEAN,
       column \in RiderColumns :
        C35_EntriesKept(states,
                        detectSolidBlockTransition(states, actor, actorOk,
                                                   column).states,
                        actor)

C35_TrackersIndependent ==
    [][/\ C35_EntriesKept(rotationStates, rotationStates', yawResult'.entity)
       /\ solidBlockStates' = solidBlockStates
       /\ C35_GroundEntriesKept]_vars

\* Both dragons have a rotation entry, with different values, and the last call
\* was made for a2, which had an entry before it.
C35_Witness ==
    /\ DOMAIN rotationStates = Actors
    /\ rotationStates["a1"] # rotationStates["a2"]
    /\ yawResult.entity = "a2"
    /\ yawResult.hadState
    /\ yawResult.rotationDirection # "error"
    /\ yawResult.storedBefore # rotationStates["a2"]


\* C37: a detectSolidBlockTransition call that fails with an exception returns
\* transitionType "error" with isBeforeCondition, isAfterCondition and isStable
\* all false and leaves the stored flag of every actor as it was; a call that
\* succeeds computes its edge against the flag the Map held before it, which
\* is the reading of the last successful call of that actor.
C37_HadBefore(a) == a \in DOMAIN solidBlockStates /\ solidBlockStates[a]

C37_Called == transition' # transition \/ lastCall' # lastCall

C37_StepKeepsStoredFlag ==
    C37_Called =>
        LET t == transition'
            a == t.actor
        IN  IF t.transitionType = "error"
            THEN /\ ~isBeforeCondition(t.transitionType)
                 /\ ~isAfterCondition(t.transitionType)
                 /\ ~isStable(t.transitionType)
                 /\ solidBlockStates' = solidBlockStates
                 /\ lastCall'[a].type = "error"
            ELSE /\ t.transitionType =
                        transitionType(C37_HadBefore(a), t.hasSolidBlockNow)
                 /\ a \in DOMAIN solidBlockStates'
                 /\ solidBlockStates'[a] = t.hasSolidBlockNow
                 /\ lastCall[a].type \in {"before", "after", "none"} =>
                        C37_HadBefore(a) = lastCall[a].hasNow
                 /\ (lastCall[a].type = "error"
                        /\ lastCall[a].prevType \in {"before", "after", "none"}) =>
                        C37_HadBefore(a) = lastCall[a].prevHasNow

C37_ErrorKeepsStoredFlag == [][C37_StepKeepsStoredFlag]_vars

\* A take-off edge reported by the call that follows a failed call: the flag
\* stored by the landing before the failure is still true.
C37_Witness ==
    /\ transition.actor = "a1"
    /\ transition.transitionType = "after"
    /\ transition.storedBefore = "true"
    /\ lastCall["a1"].type = "after"
    /\ lastCall["a1"].prevType = "error"


\* C40: a flying dragon with a mounted, valid rider that is on the ground on
\* every tick ends its flight within at most 11 ticks: while the flight is in
\* progress it has spent at most 10 ticks in a row on the ground.  A tick in
\* which the dragon is not flying and the rider does not press jump leaves
\* flyingTime at 0.
C40_StaysGroundedWithoutJump ==
    (flight.flyingTime = 0 /\ flight'.last.op \in {"grounded", "start", "exit"}
        /\ ~flight'.last.jumpPressed) => flight'.flyingTime = 0

C40_FlightEndsOnGround ==
    [][/\ flight'.flyingTime # 0 => landing'.ticks <= 10
       /\ landing'.ticks <= 11
       /\ C40_StaysGroundedWithoutJump]_vars

\* The flight ended in the eleventh tick in a row on the ground.
C40_Witness ==
    /\ landing.ticks = 11
    /\ flight.last.op = "end"
    /\ flight.flyingTime = 0
    /\ flight.last.isOnGround


\* C31: in a sustained-flight tick in which the dragon is out of stamina or the
\* rider is hovering, the FOV does not increase, moves by at most
\* FovChangeRate, and does not go below MinFov.
C31_SlowState ==
    fov.last.op = "handleFov" /\ (fov.last.isHovering \/ ~fov.last.hasStamina)

C31_FovReducesToMin ==
    C31_SlowState =>
        /\ fov.value <= fov.last.before
        /\ fov.last.before - fov.value <= fov.FovChangeRate
        /\ fov.last.before >= fov.MinFov => fov.value >= fov.MinFov


\* C32: in the acceleration branch the acceleration added along the view
\* direction is capped so that the resulting speed does not exceed the max
\* speed of the tick, for every positive max speed and every acceleration.
C32_AccelerationCapped ==
    (velocity.done /\ velocity.result.branch = "accelerate") =>
        Abs(velocity.result.v) <= velocity.maxSpeed

\* C39: in the over-speed branch the factor the velocity is multiplied by lies
\* in [0, 1]: the velocity keeps its direction and the speed does not grow.
C39_DecelerationFactorInUnitInterval ==
    (velocity.done /\ velocity.result.branch = "decelerate") =>
        /\ velocity.result.factor >= 0
        /\ velocity.result.factor <= 1000
        /\ velocity.result.v * velocity.v >= 0
        /\ Abs(velocity.result.v) <= Abs(velocity.v)


\* C34: a ranged-attack trigger that arrives less than projectileAttackCooldown
\* ticks after the last accepted trigger does nothing; an accepted trigger with
\* multiple projectiles configured schedules exactly shotCount shots, shot i at
\* i * intervalBetweenShots ticks after the trigger, sets is_ranged_attacking
\* and schedules its reset 5 ticks later; the reset sets it to false; a shot
\* whose rider is absent when it fires spawns no projectile.
C34_Trigger ==
    /\ ranged'.last.op \in {"attack", "rejected"}
    /\ ranged'.currentTick = ranged.currentTick
    /\ ranged'.rider = ranged.rider
    /\ ranged'.last.tick = ranged.currentTick
    /\ Len(ranged'.timers) >= Len(ranged.timers)
    /\ ranged' # ranged

C34_NewTimers ==
    {k \in (Len(ranged.timers) + 1)..Len(ranged'.timers) : TRUE}

C34_TriggerStep ==
    C34_Trigger =>
        IF ranged.currentTick - ranged.lastAttackTime
               < ranged.projectileAttackCooldown
        THEN /\ ranged'.timers = ranged.timers
             /\ ranged'.is_ranged_attacking = ranged.is_ranged_attacking
             /\ ranged'.lastAttackTime = ranged.lastAttackTime
             /\ ranged'.last.op = "rejected"
        ELSE /\ ranged'.last.op = "attack"
             /\ ranged'.is_ranged_attacking
             /\ ranged'.lastAttackTime = ranged.currentTick
             /\ \A k \in 1..Len(ranged.timers) :
                    ranged'.timers[k] = ranged.timers[k]
             /\ Cardinality({k \in C34_NewTimers :
                    ranged'.timers[k].kind = "reset"
                    /\ ranged'.timers[k].at = ranged.currentTick + 5}) = 1
             /\ ranged.MultipleProjectilesData.defined =>
                  LET data == ranged.MultipleProjectilesData
                      shots == {k \in C34_NewTimers :
                                    ranged'.timers[k].kind = "shot"}
                  IN  /\ Cardinality(shots) = data.shotCount
                      /\ Cardinality(C34_NewTimers) = data.shotCount + 1
                      /\ \A i \in 0..(data.shotCount - 1) :
                            Cardinality({k \in shots :
                                ranged'.timers[k].at = ranged.currentTick
                                    + i * data.intervalBetweenShots}) = 1

C34_CallbackState ==
    /\ ranged'.last.op = "shot" =>
          /\ ranged'.last.tick = ranged'.last.at
          /\ ~ranged'.last.rider => ~ranged'.last.spawned
    /\ ranged'.last.op = "reset" =>
          /\ ranged'.last.tick = ranged'.last.trigger + 5
          /\ ~ranged'.is_ranged_attacking

C34_RangedAttack == [][C34_TriggerStep /\ C34_CallbackState]_vars

\* The third shot of a trigger fires 4 ticks after it while the rider is
\* absent, and a trigger inside the cooldown has been turned down before.
C34_Witness ==
    /\ ranged.MultipleProjectilesData.defined
    /\ ranged.projectileAttackCooldown = 3
    /\ ranged.last.op = "shot"
    /\ ranged.last.at = ranged.last.trigger + 4
    /\ ~ranged.last.rider
    /\ ~ranged.last.spawned
    /\ ranged.lastAttackTime = ranged.last.trigger


\* C38: autoTameDrone tames a dragon only when it has no owner, never changes
\* an existing owner, and returns true iff after the call the dragon is tamed
\* to the calling player; a player who is not the owner is never shown the
\* dragon control menu.
C38_OwnershipStable ==
    tame.last.op # "none" =>
        LET owner == tame.tamedToPlayerId[tame.last.drone]
        IN  /\ tame.last.ownerBefore # "none" => owner = tame.last.ownerBefore
            /\ owner \in {tame.last.ownerBefore, tame.last.player}
            /\ tame.last.returned <=> owner = tame.last.player
            /\ tame.last.menu => owner = tame.last.player

====
